---- MODULE Spec2Model ----
(***************************************************************************)
(* A model of the document-question-answering page (the Index component   *)
(* with its FileUpload and ChatInterface children) and of its pure        *)
(* pipeline: createRAGChunks, calculateSemanticSimilarity,                *)
(* findRelevantChunks and generateResponse.                               *)
(*                                                                         *)
(* Strings are sequences of characters.  A character is a one-character   *)
(* TLA+ string; a Cyrillic letter is written by its code point, "U+0430"  *)
(* for the letter a of the Cyrillic alphabet, and is still ONE character  *)
(* of the sequence.  Numbers of type `number` that carry scores are exact *)
(* fractions <<numerator, denominator>>.                                  *)
(***************************************************************************)
EXTENDS Integers, Sequences, FiniteSets, Bags, TLC

VARIABLES
    \* ---- Index component state (useState hooks)
    uploadedFile, documentText, documentChunks, messages, ragChunks, isProcessing,
    \* ---- pending work of the Index component
    extractions,      \* bag of files whose `await extractTextFromFile` is pending
    timers,           \* queue of pending setTimeout callbacks with their closures
    \* ---- FileUpload component state
    isUploading, uploadProgress, interval,
    \* ---- history variables (not program state)
    lastCall,         \* the handler that ran last and what it did
    staleTimers,      \* how many of the oldest pending timers predate an upload
    \* ---- one run of createRAGChunks, statement by statement
    text, chunkSize, sentences, currentChunk, chunkIndex, chunks, cpc,
    sentCount, chunkSentCounts,   \* history: sentences per chunk
    \* ---- one evaluation of calculateSemanticSimilarity
    query, chunk, totalChunks, score, prevScore, prevChunk, additions, spc,
    \* ---- one run of the timer callback of handleSendMessage on a page state
    answerContent, answerChunks, answerText, apc,
    \* ---- ChatBot component state (src/components/ChatBot.tsx)
    isLoading, isProcessingFile,
    localStorage,     \* the items uploadedFileContent and uploadedFileName
    fileRequest,      \* the file whose upload handleFileUpload awaits
    chatRequest       \* the question and document handleSendMessage awaits on

vars == <<uploadedFile, documentText, documentChunks, messages, ragChunks,
          isProcessing, extractions, timers, isUploading, uploadProgress,
          interval, lastCall, staleTimers,
          text, chunkSize, sentences, currentChunk, chunkIndex, chunks, cpc,
          sentCount, chunkSentCounts,
          query, chunk, totalChunks, score, prevScore, prevChunk, additions, spc,
          answerContent, answerChunks, answerText, apc,
          isLoading, isProcessingFile, localStorage, fileRequest, chatRequest>>

uiVars == <<uploadedFile, documentText, documentChunks, messages, ragChunks,
            isProcessing, extractions, timers, isUploading, uploadProgress,
            interval, lastCall, staleTimers>>

chunkerVars == <<text, chunkSize, sentences, currentChunk, chunkIndex, chunks,
                 cpc, sentCount, chunkSentCounts>>

scorerVars == <<query, chunk, totalChunks, score, prevScore, prevChunk, additions, spc>>

answerVars == <<answerContent, answerChunks, answerText, apc>>

botVars == <<isLoading, isProcessingFile, localStorage, fileRequest, chatRequest>>

-----------------------------------------------------------------------------
(* Strings                                                                 *)

Min(S) == CHOOSE x \in S : \A y \in S : x <= y

\* The first and the last position of s that hold a character outside set
\* (0: there is none).
FirstOutside(s, set) ==
    IF \A i \in 1..Len(s) : s[i] \in set THEN 0
    ELSE CHOOSE i \in 1..Len(s) :
             s[i] \notin set /\ \A j \in 1..(i - 1) : s[j] \in set

LastOutside(s, set) ==
    IF \A i \in 1..Len(s) : s[i] \in set THEN 0
    ELSE CHOOSE i \in 1..Len(s) :
             s[i] \notin set /\ \A j \in (i + 1)..Len(s) : s[j] \in set

Rep(c, n) == SubSeq([i \in 1..n |-> c], 1, n)

\* The characters the regular expression class \s and String.trim() remove.
WhiteSpace == {" ", "\t", "\n"}

\* The characters of the class [.!?].
Terminators == {".", "!", "?"}

\* String.prototype.trim
Trim(s) ==
    LET first == FirstOutside(s, WhiteSpace)
    IN  IF first = 0 THEN <<>> ELSE SubSeq(s, first, LastOutside(s, WhiteSpace))

\* s.replace(/\s+/g, ' '): every maximal run of whitespace becomes one space
CollapseWhitespace(s) ==
    LET marked == [i \in 1..Len(s) |->
                      IF s[i] \in WhiteSpace
                      THEN <<" ", i = 1 \/ s[i-1] \notin WhiteSpace>>
                      ELSE <<s[i], TRUE>>]
        Kept(m) == m[2]
        kept == SelectSeq(marked, Kept)
    IN  SubSeq([i \in 1..Len(kept) |-> kept[i][1]], 1, Len(kept))

\* The first position from i on that holds a character of set (Len(s)+1: none).
NextIn(s, i, set) ==
    LET at == {j \in i..Len(s) : s[j] \in set}
    IN  IF at = {} THEN Len(s) + 1 ELSE Min(at)

\* The first position from i on that holds a character outside set.
NextNotIn(s, i, set) ==
    LET at == {j \in i..Len(s) : s[j] \notin set}
    IN  IF at = {} THEN Len(s) + 1 ELSE Min(at)

RECURSIVE SplitRunsFrom(_, _, _)
SplitRunsFrom(s, seps, i) ==
    LET j == NextIn(s, i, seps)
    IN  IF j > Len(s) THEN <<SubSeq(s, i, Len(s))>>
        ELSE <<SubSeq(s, i, j - 1)>> \o SplitRunsFrom(s, seps, NextNotIn(s, j, seps))

\* s.split(/[seps]+/): the pieces between maximal runs of separator characters
SplitRuns(s, seps) == SplitRunsFrom(s, seps, 1)

RECURSIVE SplitCharFrom(_, _, _)
SplitCharFrom(s, sep, i) ==
    LET j == NextIn(s, i, {sep})
    IN  IF j > Len(s) THEN <<SubSeq(s, i, Len(s))>>
        ELSE <<SubSeq(s, i, j - 1)>> \o SplitCharFrom(s, sep, j + 1)

\* s.split(sep) for a one-character separator
SplitChar(s, sep) == SplitCharFrom(s, sep, 1)

RECURSIVE Join(_, _)
\* parts.join(sep)
Join(parts, sep) ==
    IF parts = <<>> THEN <<>>
    ELSE IF Len(parts) = 1 THEN parts[1]
    ELSE parts[1] \o sep \o Join(Tail(parts), sep)

-----------------------------------------------------------------------------
(* Characters                                                              *)

\* The class \w of a regular expression without the u flag: [A-Za-z0-9_].
WordChars ==
    {"A", "B", "C", "D", "E", "F", "G", "H", "I", "J", "K", "L", "M", "N",
     "O", "P", "Q", "R", "S", "T", "U", "V", "W", "X", "Y", "Z", "a", "b",
     "c", "d", "e", "f", "g", "h", "i", "j", "k", "l", "m", "n", "o", "p",
     "q", "r", "s", "t", "u", "v", "w", "x", "y", "z", "0", "1", "2", "3",
     "4", "5", "6", "7", "8", "9", "_"}

\* The range \u0400-\u04FF.
Cyrillic ==
    {"U+0400", "U+0401", "U+0402", "U+0403", "U+0404", "U+0405", "U+0406",
     "U+0407", "U+0408", "U+0409", "U+040A", "U+040B", "U+040C", "U+040D",
     "U+040E", "U+040F", "U+0410", "U+0411", "U+0412", "U+0413", "U+0414",
     "U+0415", "U+0416", "U+0417", "U+0418", "U+0419", "U+041A", "U+041B",
     "U+041C", "U+041D", "U+041E", "U+041F", "U+0420", "U+0421", "U+0422",
     "U+0423", "U+0424", "U+0425", "U+0426", "U+0427", "U+0428", "U+0429",
     "U+042A", "U+042B", "U+042C", "U+042D", "U+042E", "U+042F", "U+0430",
     "U+0431", "U+0432", "U+0433", "U+0434", "U+0435", "U+0436", "U+0437",
     "U+0438", "U+0439", "U+043A", "U+043B", "U+043C", "U+043D", "U+043E",
     "U+043F", "U+0440", "U+0441", "U+0442", "U+0443", "U+0444", "U+0445",
     "U+0446", "U+0447", "U+0448", "U+0449", "U+044A", "U+044B", "U+044C",
     "U+044D", "U+044E", "U+044F", "U+0450", "U+0451", "U+0452", "U+0453",
     "U+0454", "U+0455", "U+0456", "U+0457", "U+0458", "U+0459", "U+045A",
     "U+045B", "U+045C", "U+045D", "U+045E", "U+045F", "U+0460", "U+0461",
     "U+0462", "U+0463", "U+0464", "U+0465", "U+0466", "U+0467", "U+0468",
     "U+0469", "U+046A", "U+046B", "U+046C", "U+046D", "U+046E", "U+046F",
     "U+0470", "U+0471", "U+0472", "U+0473", "U+0474", "U+0475", "U+0476",
     "U+0477", "U+0478", "U+0479", "U+047A", "U+047B", "U+047C", "U+047D",
     "U+047E", "U+047F", "U+0480", "U+0481", "U+0482", "U+0483", "U+0484",
     "U+0485", "U+0486", "U+0487", "U+0488", "U+0489", "U+048A", "U+048B",
     "U+048C", "U+048D", "U+048E", "U+048F", "U+0490", "U+0491", "U+0492",
     "U+0493", "U+0494", "U+0495", "U+0496", "U+0497", "U+0498", "U+0499",
     "U+049A", "U+049B", "U+049C", "U+049D", "U+049E", "U+049F", "U+04A0",
     "U+04A1", "U+04A2", "U+04A3", "U+04A4", "U+04A5", "U+04A6", "U+04A7",
     "U+04A8", "U+04A9", "U+04AA", "U+04AB", "U+04AC", "U+04AD", "U+04AE",
     "U+04AF", "U+04B0", "U+04B1", "U+04B2", "U+04B3", "U+04B4", "U+04B5",
     "U+04B6", "U+04B7", "U+04B8", "U+04B9", "U+04BA", "U+04BB", "U+04BC",
     "U+04BD", "U+04BE", "U+04BF", "U+04C0", "U+04C1", "U+04C2", "U+04C3",
     "U+04C4", "U+04C5", "U+04C6", "U+04C7", "U+04C8", "U+04C9", "U+04CA",
     "U+04CB", "U+04CC", "U+04CD", "U+04CE", "U+04CF", "U+04D0", "U+04D1",
     "U+04D2", "U+04D3", "U+04D4", "U+04D5", "U+04D6", "U+04D7", "U+04D8",
     "U+04D9", "U+04DA", "U+04DB", "U+04DC", "U+04DD", "U+04DE", "U+04DF",
     "U+04E0", "U+04E1", "U+04E2", "U+04E3", "U+04E4", "U+04E5", "U+04E6",
     "U+04E7", "U+04E8", "U+04E9", "U+04EA", "U+04EB", "U+04EC", "U+04ED",
     "U+04EE", "U+04EF", "U+04F0", "U+04F1", "U+04F2", "U+04F3", "U+04F4",
     "U+04F5", "U+04F6", "U+04F7", "U+04F8", "U+04F9", "U+04FA", "U+04FB",
     "U+04FC", "U+04FD", "U+04FE", "U+04FF"}

\* The upper-case letters that occur in the texts, in the order of their
\* lower-case letters below.
UpperCase ==
    <<"A", "B", "C", "D", "E", "F", "G", "H", "I", "J", "K", "L", "M", "N",
      "O", "P", "Q", "R", "S", "T", "U", "V", "W", "X", "Y", "Z", "U+0410",
      "U+0411", "U+0412", "U+0413", "U+0414", "U+0415", "U+0416", "U+0417",
      "U+0418", "U+0419", "U+041A", "U+041B", "U+041C", "U+041D", "U+041E",
      "U+041F", "U+0420", "U+0421", "U+0422", "U+0423", "U+0424", "U+0425",
      "U+0426", "U+0427", "U+0428", "U+0429", "U+042A", "U+042B", "U+042C",
      "U+042D", "U+042E", "U+042F">>

LowerCaseOfUpper ==
    <<"a", "b", "c", "d", "e", "f", "g", "h", "i", "j", "k", "l", "m", "n",
      "o", "p", "q", "r", "s", "t", "u", "v", "w", "x", "y", "z", "U+0430",
      "U+0431", "U+0432", "U+0433", "U+0434", "U+0435", "U+0436", "U+0437",
      "U+0438", "U+0439", "U+043A", "U+043B", "U+043C", "U+043D", "U+043E",
      "U+043F", "U+0440", "U+0441", "U+0442", "U+0443", "U+0444", "U+0445",
      "U+0446", "U+0447", "U+0448", "U+0449", "U+044A", "U+044B", "U+044C",
      "U+044D", "U+044E", "U+044F">>

\* The lower-case letter of every upper-case letter.
LowerCaseMap ==
    [c \in {UpperCase[i] : i \in 1..Len(UpperCase)} |->
        LowerCaseOfUpper[CHOOSE i \in 1..Len(UpperCase) : UpperCase[i] = c]]

LowerChar(c) == IF c \in DOMAIN LowerCaseMap THEN LowerCaseMap[c] ELSE c

\* String.prototype.toLowerCase
ToLowerCase(s) == SubSeq([i \in 1..Len(s) |-> LowerChar(s[i])], 1, Len(s))

\* String.prototype.includes
\* sub occurs in s at position i.
OccursAt(s, sub, i) == \A k \in 1..Len(sub) : s[i + k - 1] = sub[k]

Includes(s, sub) == \E i \in 1..(Len(s) - Len(sub) + 1) : OccursAt(s, sub, i)

DigitChars == <<"0", "1", "2", "3", "4", "5", "6", "7", "8", "9">>

RECURSIVE Digits(_)
\* The decimal digits of a natural number, as a template literal writes it.
Digits(n) ==
    IF n < 10 THEN <<DigitChars[n + 1]>>
    ELSE Digits(n \div 10) \o <<DigitChars[(n % 10) + 1]>>

-----------------------------------------------------------------------------
(* Numbers: exact fractions <<numerator, denominator>>, denominator > 0    *)

RECURSIVE GCD(_, _)
GCD(a, b) == IF b = 0 THEN a ELSE GCD(b, a % b)

Abs(n) == IF n < 0 THEN 0 - n ELSE n

Frac(n, d) ==
    LET g == GCD(Abs(n), d)
    IN  IF n = 0 THEN <<0, 1>> ELSE <<n \div g, d \div g>>

FAdd(a, b) == Frac(a[1] * b[2] + b[1] * a[2], a[2] * b[2])

FSub(a, b) == Frac(a[1] * b[2] - b[1] * a[2], a[2] * b[2])

FMul(a, b) == Frac(a[1] * b[1], a[2] * b[2])

FLess(a, b) == a[1] * b[2] < b[1] * a[2]

FLeq(a, b) == a[1] * b[2] <= b[1] * a[2]

FMin(a, b) == IF FLess(b, a) THEN b ELSE a

FMax(a, b) == IF FLess(a, b) THEN b ELSE a

-----------------------------------------------------------------------------
(* createRAGChunks                                                         *)

\* s.trim().length > 10
MinSentenceLength == 10

\* chunkSize: number = 300
DefaultChunkSize == 300

LongEnough(s) == Len(Trim(s)) > MinSentenceLength

\* cleanText.split(/[.!?]+/).filter(s => s.trim().length > 10)
SentencesOf(t) ==
    SelectSeq(SplitRuns(Trim(CollapseWhitespace(t)), Terminators), LongEnough)

\* The DocumentChunk pushed for the accumulated string cur.
MakeChunk(index, cur) ==
    [id |-> "chunk_" \o ToString(index),
     content |-> Trim(cur),
     chunkIndex |-> index,
     wordCount |-> Len(SplitChar(cur, " "))]

\* The test that closes the current chunk before a sentence is added.
ClosesChunk(cur, trimmedSentence, size) ==
    Len(cur) + Len(trimmedSentence) > size /\ Len(cur) > 0

\* Mutant: the sentence that closes a chunk is not carried into the next one.
AddSentence_DropsOnClose(acc, sentence, size) ==
    LET trimmedSentence == Trim(sentence)
    IN  IF ClosesChunk(acc.currentChunk, trimmedSentence, size)
        THEN [chunks |-> Append(acc.chunks, MakeChunk(acc.chunkIndex, acc.currentChunk)),
              currentChunk |-> <<>>,
              chunkIndex |-> acc.chunkIndex + 1]
        ELSE [acc EXCEPT !.currentChunk =
                 @ \o (IF @ # <<>> THEN <<" ">> ELSE <<>>) \o trimmedSentence]

\* Mutant: chunkIndex++ is missing.
AddSentence_KeepsIndex(acc, sentence, size) ==
    LET trimmedSentence == Trim(sentence)
    IN  IF ClosesChunk(acc.currentChunk, trimmedSentence, size)
        THEN [chunks |-> Append(acc.chunks, MakeChunk(acc.chunkIndex, acc.currentChunk)),
              currentChunk |-> trimmedSentence,
              chunkIndex |-> acc.chunkIndex]
        ELSE [acc EXCEPT !.currentChunk =
                 @ \o (IF @ # <<>> THEN <<" ">> ELSE <<>>) \o trimmedSentence]

\* One iteration of the for loop over the sentences, on the loop's state.
AddSentence(acc, sentence, size) ==
    LET trimmedSentence == Trim(sentence)
    IN  IF ClosesChunk(acc.currentChunk, trimmedSentence, size)
        THEN [chunks |-> Append(acc.chunks, MakeChunk(acc.chunkIndex, acc.currentChunk)),
              currentChunk |-> trimmedSentence,
              chunkIndex |-> acc.chunkIndex + 1]
        ELSE [acc EXCEPT !.currentChunk =
                 @ \o (IF @ # <<>> THEN <<" ">> ELSE <<>>) \o trimmedSentence]

\* Mutant: the last chunk is pushed without the test of currentChunk.trim().
LastChunk_Unguarded(acc) ==
    Append(acc.chunks, MakeChunk(acc.chunkIndex, acc.currentChunk))

\* The statements after the loop: the last chunk, when it is not blank.
LastChunk(acc) ==
    IF Trim(acc.currentChunk) # <<>>
    THEN Append(acc.chunks, MakeChunk(acc.chunkIndex, acc.currentChunk))
    ELSE acc.chunks

RECURSIVE ChunkLoop(_, _, _)
ChunkLoop(acc, ss, size) ==
    IF ss = <<>> THEN acc
    ELSE ChunkLoop(AddSentence(acc, Head(ss), size), Tail(ss), size)

createRAGChunks(t, size) ==
    IF Trim(t) = <<>> THEN <<>>
    ELSE LastChunk(ChunkLoop([chunks |-> <<>>, currentChunk |-> <<>>, chunkIndex |-> 0],
                             SentencesOf(t), size))

-----------------------------------------------------------------------------
(* calculateSemanticSimilarity                                             *)

\* w.replace(/[^\w\u0400-\u04FF]/g, ""): only \w and Cyrillic characters stay
KeepsChar(c) == c \in WordChars \cup Cyrillic

StripWord(w) == SelectSeq(w, KeepsChar)

LongerThanTwo(w) == Len(w) > 2

\* queryLower.split(/\s+/).filter(w => w.length > 2).map(w => w.replace(...))
QueryWords(q) ==
    LET kept == SelectSeq(SplitRuns(ToLowerCase(q), WhiteSpace), LongerThanTwo)
    IN  [i \in 1..Len(kept) |-> StripWord(kept[i])]

\* \b holds between positions p and p+1 of s (p in 0..Len(s)): exactly one of
\* the two neighbours is a \w character; outside the string there is none.
WordBoundary(s, p) ==
    LET before == p >= 1 /\ s[p] \in WordChars
        after == p < Len(s) /\ s[p + 1] \in WordChars
    IN  before # after

\* The positions where \bword\b matches in s.
ExactMatchStarts(s, word) ==
    {i \in 1..(Len(s) - Len(word) + 1) :
        /\ OccursAt(s, word, i)
        /\ WordBoundary(s, i - 1)
        /\ WordBoundary(s, i + Len(word) - 1)}

RECURSIVE CountFrom(_, _, _)
\* The matches a global search reports: from the left, never overlapping.
CountFrom(starts, len, from) ==
    LET rest == {i \in starts : i >= from}
    IN  IF rest = {} THEN 0 ELSE 1 + CountFrom(starts, len, Min(rest) + len)

\* (chunkLower.match(new RegExp(`\\b${word}\\b`, 'g')) || []).length
ExactMatches(s, word) ==
    IF word = <<>>
    THEN Cardinality({p \in 0..Len(s) : WordBoundary(s, p)})
    ELSE CountFrom(ExactMatchStarts(s, word), Len(word), 1)

Variations(word) ==
    <<word \o <<"U+0430">>,
      word \o <<"U+044B">>,
      word \o <<"U+0438">>,
      word \o <<"U+043E", "U+0432">>,
      word \o <<"U+0430", "U+0445">>>>

\* What one query word adds to score, in twentieths: 0.5 for every exact
\* match, 0.2 when the word occurs at all, 0.05 for every variation found.
WordScore(chunkLower, word) ==
    LET v == Variations(word)
    IN  Frac(10 * ExactMatches(chunkLower, word)
             + (IF Includes(chunkLower, word) THEN 4 ELSE 0)
             + Cardinality({i \in 1..Len(v) : Includes(chunkLower, v[i])}),
             20)

RECURSIVE SumWordScores(_, _)
SumWordScores(chunkLower, words) ==
    IF words = <<>> THEN <<0, 1>>
    ELSE FAdd(WordScore(chunkLower, Head(words)),
              SumWordScores(chunkLower, Tail(words)))

\* chunk.content.length >= 100 && chunk.content.length <= 500
MinBonusLength == 100

MaxBonusLength == 500

\* Mutant: the bonus is given below a length of 100, not from 100 on.
LengthBonus_Below(content) ==
    IF Len(content) < MinBonusLength THEN <<1, 10>> ELSE <<0, 1>>

LengthBonus(content) ==
    IF Len(content) >= MinBonusLength /\ Len(content) <= MaxBonusLength
    THEN <<1, 10>> ELSE <<0, 1>>

\* Mutant: the bonus falls to 0 at the last chunk.
PositionBonus_ToZero(index, total) ==
    IF total = 1 THEN <<1, 10>>
    ELSE FMax(<<0, 1>>, FSub(<<1, 10>>, FMul(Frac(index, total - 1), <<1, 10>>)))

\* Math.max(0, 0.1 - (chunk.chunkIndex / documentChunks.length) * 0.1)
PositionBonus(index, total) ==
    FMax(<<0, 1>>, FSub(<<1, 10>>, FMul(Frac(index, total), <<1, 10>>)))

\* Mutant: the result is not capped at 1.
calculateSemanticSimilarity_Unclamped(q, c, total) ==
    LET chunkLower == ToLowerCase(c.content)
        queryWords == QueryWords(q)
    IN  IF Len(queryWords) = 0 THEN <<0, 1>>
        ELSE LET sum == SumWordScores(chunkLower, queryWords)
                 normalizedScore == Frac(sum[1], sum[2] * Len(queryWords))
             IN  FAdd(FAdd(normalizedScore, LengthBonus(c.content)),
                      PositionBonus(c.chunkIndex, total))

\* Mutant: no early return for a query without words; the bonuses are added.
calculateSemanticSimilarity_NoEarlyReturn(q, c, total) ==
    LET chunkLower == ToLowerCase(c.content)
        queryWords == QueryWords(q)
        sum == SumWordScores(chunkLower, queryWords)
        normalizedScore == IF Len(queryWords) = 0 THEN <<0, 1>>
                           ELSE Frac(sum[1], sum[2] * Len(queryWords))
    IN  FMin(FAdd(FAdd(normalizedScore, LengthBonus(c.content)),
                  PositionBonus(c.chunkIndex, total)),
             <<1, 1>>)

\* documentChunks is the chunk set of the render the function belongs to;
\* only its length is read.
calculateSemanticSimilarity(q, c, total) ==
    LET chunkLower == ToLowerCase(c.content)
        queryWords == QueryWords(q)
    IN  IF Len(queryWords) = 0 THEN <<0, 1>>
        ELSE LET sum == SumWordScores(chunkLower, queryWords)
                 normalizedScore == Frac(sum[1], sum[2] * Len(queryWords))
             IN  FMin(FAdd(FAdd(normalizedScore, LengthBonus(c.content)),
                           PositionBonus(c.chunkIndex, total)),
                      <<1, 1>>)

-----------------------------------------------------------------------------
(* findRelevantChunks                                                      *)

\* source: `Chank ${chunk.chunkIndex + 1} (${chunk.wordCount} slov)`, in Russian
SourcePrefix ==
    <<"U+0427", "U+0430", "U+043D", "U+043A", " ">>

SourceSuffix ==
    <<" ", "U+0441", "U+043B", "U+043E", "U+0432", ")">>

SourceOf(c) ==
    SourcePrefix \o Digits(c.chunkIndex + 1) \o <<" ", "(">> \o Digits(c.wordCount)
        \o SourceSuffix

\* .filter(chunk => chunk.score > 0.01)
AboveThreshold(c) == FLess(<<1, 100>>, c.score)

RECURSIVE InsertByScore_BeforeEqual(_, _)
\* Mutant: c goes before the elements that score the same.
InsertByScore_BeforeEqual(sorted, c) ==
    IF sorted = <<>> THEN <<c>>
    ELSE IF FLeq(Head(sorted).score, c.score) THEN <<c>> \o sorted
    ELSE <<Head(sorted)>> \o InsertByScore_BeforeEqual(Tail(sorted), c)

RECURSIVE InsertByScore(_, _)
\* c put into a list sorted by descending score, after the elements that
\* score the same or more: Array.prototype.sort is stable.
InsertByScore(sorted, c) ==
    IF sorted = <<>> THEN <<c>>
    ELSE IF FLess(Head(sorted).score, c.score) THEN <<c>> \o sorted
    ELSE <<Head(sorted)>> \o InsertByScore(Tail(sorted), c)

RECURSIVE SortByScore(_)
\* .sort((a, b) => b.score - a.score)
SortByScore(cs) ==
    IF cs = <<>> THEN <<>>
    ELSE InsertByScore(SortByScore(SubSeq(cs, 1, Len(cs) - 1)), cs[Len(cs)])

\* .slice(0, 5)
TopResults == 5

Slice(cs, n) == SubSeq(cs, 1, IF Len(cs) < n THEN Len(cs) ELSE n)

\* Mutant: the chunks shown for the query before are left out.
findRelevantChunks_SkipsShown(q, docChunks) ==
    IF Len(docChunks) = 0 THEN <<>>
    ELSE LET scoredChunks ==
                 [i \in 1..Len(docChunks) |->
                     [content |-> docChunks[i].content,
                      score |-> calculateSemanticSimilarity(q, docChunks[i], Len(docChunks)),
                      source |-> SourceOf(docChunks[i])]]
             NotShown(c) == \A k \in 1..Len(ragChunks) : ragChunks[k] # c
         IN  Slice(SortByScore(SelectSeq(SelectSeq(scoredChunks, AboveThreshold),
                                         NotShown)),
                   TopResults)

\* documentChunks is the chunk set of the render the function belongs to.
findRelevantChunks(q, docChunks) ==
    IF Len(docChunks) = 0 THEN <<>>
    ELSE LET scoredChunks ==
                 [i \in 1..Len(docChunks) |->
                     [content |-> docChunks[i].content,
                      score |-> calculateSemanticSimilarity(q, docChunks[i], Len(docChunks)),
                      source |-> SourceOf(docChunks[i])]]
         IN  Slice(SortByScore(SelectSeq(scoredChunks, AboveThreshold)), TopResults)

-----------------------------------------------------------------------------
(* generateResponse                                                        *)

\* uploadedFile?.name || '...': the word for `document`
DefaultDocumentName ==
    <<"U+0434", "U+043E", "U+043A", "U+0443", "U+043C", "U+0435", "U+043D",
      "U+0442">>

\* The message for an empty ranking, around the name, the query and the count.
NoResultsHead ==
    <<"U+041A", " ", "U+0441", "U+043E", "U+0436", "U+0430", "U+043B",
      "U+0435", "U+043D", "U+0438", "U+044E", ",", " ", "U+0432", " ",
      "U+0434", "U+043E", "U+043A", "U+0443", "U+043C", "U+0435", "U+043D",
      "U+0442", "U+0435", " ", "\"">>

NoResultsMiddle ==
    <<"\"", " ", "U+043D", "U+0435", " ", "U+043D", "U+0430", "U+0439",
      "U+0434", "U+0435", "U+043D", "U+043E", " ", "U+0438", "U+043D",
      "U+0444", "U+043E", "U+0440", "U+043C", "U+0430", "U+0446", "U+0438",
      "U+0438", ",", " ", "U+0440", "U+0435", "U+043B", "U+0435", "U+0432",
      "U+0430", "U+043D", "U+0442", "U+043D", "U+043E", "U+0439", " ",
      "U+0432", "U+0430", "U+0448", "U+0435", "U+043C", "U+0443", " ",
      "U+0437", "U+0430", "U+043F", "U+0440", "U+043E", "U+0441", "U+0443",
      " ", "\"">>

NoResultsReasons ==
    <<"\"", ".", " ", "\n", "\n", "U+0412", "U+043E", "U+0437", "U+043C",
      "U+043E", "U+0436", "U+043D", "U+044B", "U+0435", " ", "U+043F",
      "U+0440", "U+0438", "U+0447", "U+0438", "U+043D", "U+044B", ":", "\n",
      "U+2022", " ", "U+0418", "U+043D", "U+0444", "U+043E", "U+0440",
      "U+043C", "U+0430", "U+0446", "U+0438", "U+044F", " ", "U+043E",
      "U+0442", "U+0441", "U+0443", "U+0442", "U+0441", "U+0442", "U+0432",
      "U+0443", "U+0435", "U+0442", " ", "U+0432", " ", "U+0434", "U+043E",
      "U+043A", "U+0443", "U+043C", "U+0435", "U+043D", "U+0442", "U+0435",
      "\n", "U+2022", " ", "U+041F", "U+043E", "U+043F", "U+0440", "U+043E",
      "U+0431", "U+0443", "U+0439", "U+0442", "U+0435", " ", "U+043F",
      "U+0435", "U+0440", "U+0435", "U+0444", "U+043E", "U+0440", "U+043C",
      "U+0443", "U+043B", "U+0438", "U+0440", "U+043E", "U+0432", "U+0430",
      "U+0442", "U+044C", " ", "U+0432", "U+043E", "U+043F", "U+0440",
      "U+043E", "U+0441", "\n", "U+2022", " ", "U+0418", "U+0441", "U+043F",
      "U+043E", "U+043B", "U+044C", "U+0437", "U+0443", "U+0439", "U+0442",
      "U+0435", " ", "U+0434", "U+0440", "U+0443", "U+0433", "U+0438",
      "U+0435", " ", "U+043A", "U+043B", "U+044E", "U+0447", "U+0435",
      "U+0432", "U+044B", "U+0435", " ", "U+0441", "U+043B", "U+043E",
      "U+0432", "U+0430", "\n", "\n", "U+0412", "U+0441", "U+0435", "U+0433",
      "U+043E", " ", "U+0441", "U+043E", "U+0437", "U+0434", "U+0430",
      "U+043D", "U+043E", " ">>

NoResultsTail ==
    <<" ", "U+0447", "U+0430", "U+043D", "U+043A", "U+043E", "U+0432", " ",
      "U+0434", "U+043B", "U+044F", " ", "U+0430", "U+043D", "U+0430",
      "U+043B", "U+0438", "U+0437", "U+0430", ".">>

\* The prefixes of an answer.
TitlePrefix ==
    <<"U+041D", "U+0430", "U+0437", "U+0432", "U+0430", "U+043D", "U+0438",
      "U+0435", " ", "U+0441", "U+0442", "U+0430", "U+0442", "U+044C",
      "U+0438", ":", " ", "\"">>

PossibleTitlePrefix ==
    <<"U+0412", "U+043E", "U+0437", "U+043C", "U+043E", "U+0436", "U+043D",
      "U+043E", "U+0435", " ", "U+043D", "U+0430", "U+0437", "U+0432",
      "U+0430", "U+043D", "U+0438", "U+0435", " ", "U+0438", "U+0437", " ",
      "U+0440", "U+0435", "U+043B", "U+0435", "U+0432", "U+0430", "U+043D",
      "U+0442", "U+043D", "U+043E", "U+0433", "U+043E", " ", "U+0444",
      "U+0440", "U+0430", "U+0433", "U+043C", "U+0435", "U+043D", "U+0442",
      "U+0430", ":", " ", "\"">>

QuoteEnd ==
    <<"\"", "\n", "\n">>

AuthorPrefix ==
    <<"U+0418", "U+043D", "U+0444", "U+043E", "U+0440", "U+043C", "U+0430",
      "U+0446", "U+0438", "U+044F", " ", "U+043E", "U+0431", " ", "U+0430",
      "U+0432", "U+0442", "U+043E", "U+0440", "U+0430", "U+0445", ":", "\n",
      "\n">>

AbstractPrefix ==
    <<"U+0410", "U+043D", "U+043D", "U+043E", "U+0442", "U+0430", "U+0446",
      "U+0438", "U+044F", ":", "\n", "\n">>

ConclusionPrefix ==
    <<"U+0412", "U+044B", "U+0432", "U+043E", "U+0434", "U+044B", ":", "\n",
      "\n">>

GenericPrefixHead ==
    <<"U+041F", "U+043E", " ", "U+0432", "U+0430", "U+0448", "U+0435",
      "U+043C", "U+0443", " ", "U+0432", "U+043E", "U+043F", "U+0440",
      "U+043E", "U+0441", "U+0443", " ", "\"">>

GenericPrefixTail ==
    <<"\"", " ", "U+043D", "U+0430", "U+0439", "U+0434", "U+0435", "U+043D",
      "U+0430", " ", "U+0441", "U+043B", "U+0435", "U+0434", "U+0443",
      "U+044E", "U+0449", "U+0430", "U+044F", " ", "U+0438", "U+043D",
      "U+0444", "U+043E", "U+0440", "U+043C", "U+0430", "U+0446", "U+0438",
      "U+044F", ":", "\n", "\n">>

\* The statistics footer, around the three numbers.
StatsHead ==
    <<"\n", "\n", "U+1F4CA", " ", "U+0421", "U+0442", "U+0430", "U+0442",
      "U+0438", "U+0441", "U+0442", "U+0438", "U+043A", "U+0430", " ",
      "U+043F", "U+043E", "U+0438", "U+0441", "U+043A", "U+0430", ":", "\n",
      "U+2022", " ", "U+041D", "U+0430", "U+0439", "U+0434", "U+0435",
      "U+043D", "U+043E", " ", "U+0440", "U+0435", "U+043B", "U+0435",
      "U+0432", "U+0430", "U+043D", "U+0442", "U+043D", "U+044B", "U+0445",
      " ", "U+0444", "U+0440", "U+0430", "U+0433", "U+043C", "U+0435",
      "U+043D", "U+0442", "U+043E", "U+0432", ":", " ">>

StatsMax ==
    <<"\n", "U+2022", " ", "U+041C", "U+0430", "U+043A", "U+0441", "U+0438",
      "U+043C", "U+0430", "U+043B", "U+044C", "U+043D", "U+0430", "U+044F",
      " ", "U+0440", "U+0435", "U+043B", "U+0435", "U+0432", "U+0430",
      "U+043D", "U+0442", "U+043D", "U+043E", "U+0441", "U+0442", "U+044C",
      ":", " ">>

StatsAnalysed ==
    <<"%", "\n", "U+2022", " ", "U+041F", "U+0440", "U+043E", "U+0430",
      "U+043D", "U+0430", "U+043B", "U+0438", "U+0437", "U+0438", "U+0440",
      "U+043E", "U+0432", "U+0430", "U+043D", "U+043E", " ", "U+0447",
      "U+0430", "U+043D", "U+043A", "U+043E", "U+0432", ":", " ">>

\* The keyword groups, in Russian and English.
TitleKeywords ==
    {<<"U+043D", "U+0430", "U+0437", "U+0432", "U+0430", "U+043D", "U+0438",
       "U+0435">>,
     <<"U+0437", "U+0430", "U+0433", "U+043E", "U+043B", "U+043E", "U+0432",
       "U+043E", "U+043A">>,
     <<"U+0441", "U+0442", "U+0430", "U+0442", "U+044C", "U+044F">>,
     <<"t", "i", "t", "l", "e">>}

\* author
AuthorKeywords ==
    {<<"U+0430", "U+0432", "U+0442", "U+043E", "U+0440">>,
     <<"a", "u", "t", "h", "o", "r">>}

\* abstract
AbstractKeywords ==
    {<<"U+0430", "U+043D", "U+043D", "U+043E", "U+0442", "U+0430", "U+0446",
       "U+0438", "U+044F">>,
     <<"a", "b", "s", "t", "r", "a", "c", "t">>,
     <<"U+0440", "U+0435", "U+0437", "U+044E", "U+043C", "U+0435">>}

\* conclusion
ConclusionKeywords ==
    {<<"U+0432", "U+044B", "U+0432", "U+043E", "U+0434">>,
     <<"U+0437", "U+0430", "U+043A", "U+043B", "U+044E", "U+0447", "U+0435",
       "U+043D", "U+0438", "U+0435">>,
     <<"c", "o", "n", "c", "l", "u", "s", "i", "o", "n">>}

\* The words that rule a chunk out as the title.
BoilerplateMarkers ==
    {<<"a", "b", "s", "t", "r", "a", "c", "t">>,
     <<"i", "n", "t", "r", "o", "d", "u", "c", "t", "i", "o", "n">>,
     <<"k", "e", "y", "w", "o", "r", "d", "s">>}

IncludesAny(s, keywords) == \E k \in keywords : Includes(s, k)

\* Number.prototype.toFixed(1) of score * 100: the tenths rounded half up.
ToFixed1(x) ==
    LET tenths == (x[1] * 2000 + x[2]) \div (2 * x[2])
    IN  Digits(tenths \div 10) \o <<".">> \o Digits(tenths % 10)

\* content.length > 10 && content.length < 200 && !...includes(marker)
MinTitleLength == 10

MaxTitleLength == 200

\* Mutant: a content of exactly 200 characters is taken too.
LooksLikeTitle_UpToMax(c) ==
    LET content == Trim(c.content)
    IN  /\ Len(content) > MinTitleLength
        /\ Len(content) <= MaxTitleLength
        /\ ~IncludesAny(ToLowerCase(content), BoilerplateMarkers)

LooksLikeTitle(c) ==
    LET content == Trim(c.content)
    IN  /\ Len(content) > MinTitleLength
        /\ Len(content) < MaxTitleLength
        /\ ~IncludesAny(ToLowerCase(content), BoilerplateMarkers)

\* documentChunks.slice(0, 3)
TitleScan == 3

\* The prefix of a query about the title: the first of the first three
\* chunks that looks like a title, else the top-ranked chunk.
TitleResponse(ranked, docChunks) ==
    LET firstParagraphs == Slice(docChunks, TitleScan)
        found == {i \in 1..Len(firstParagraphs) : LooksLikeTitle(firstParagraphs[i])}
    IN  IF found # {}
        THEN TitlePrefix \o Trim(firstParagraphs[Min(found)].content) \o QuoteEnd
        ELSE PossibleTitlePrefix \o ranked[1].content \o QuoteEnd

\* Mutant: the author keywords are looked for before the title keywords.
ResponsePrefix_AuthorFirst(q, ranked, docChunks) ==
    LET queryLower == ToLowerCase(q)
    IN  IF IncludesAny(queryLower, AuthorKeywords) THEN AuthorPrefix
        ELSE IF IncludesAny(queryLower, TitleKeywords) THEN TitleResponse(ranked, docChunks)
        ELSE IF IncludesAny(queryLower, AbstractKeywords) THEN AbstractPrefix
        ELSE IF IncludesAny(queryLower, ConclusionKeywords) THEN ConclusionPrefix
        ELSE GenericPrefixHead \o q \o GenericPrefixTail

ResponsePrefix(q, ranked, docChunks) ==
    LET queryLower == ToLowerCase(q)
    IN  IF IncludesAny(queryLower, TitleKeywords) THEN TitleResponse(ranked, docChunks)
        ELSE IF IncludesAny(queryLower, AuthorKeywords) THEN AuthorPrefix
        ELSE IF IncludesAny(queryLower, AbstractKeywords) THEN AbstractPrefix
        ELSE IF IncludesAny(queryLower, ConclusionKeywords) THEN ConclusionPrefix
        ELSE GenericPrefixHead \o q \o GenericPrefixTail

\* Mutant: a score above 0.1 counts as high.
HighScore_AboveTenth(c) == FLess(<<1, 10>>, c.score)

\* c.score > 0.3
HighScore(c) == FLess(<<3, 10>>, c.score)

\* How many high-score chunks make a body of several chunks, and how many
\* of them it shows.
BodyChunks == 2

ResponseBody(ranked) ==
    LET highScoreChunks == SelectSeq(ranked, HighScore)
        shown == Slice(highScoreChunks, BodyChunks)
    IN  IF Len(highScoreChunks) >= BodyChunks
        THEN Join([i \in 1..Len(shown) |->
                      Digits(i) \o <<".", " ">> \o shown[i].content],
                  <<"\n", "\n">>)
        ELSE ranked[1].content

\* Mutant: the message never names the file.
NoResultsMessage_DefaultName(q, fileName, count) ==
    NoResultsHead \o DefaultDocumentName
        \o NoResultsMiddle \o q \o NoResultsReasons \o Digits(count) \o NoResultsTail

NoResultsMessage(q, fileName, count) ==
    NoResultsHead \o (IF fileName = <<>> THEN DefaultDocumentName ELSE fileName)
        \o NoResultsMiddle \o q \o NoResultsReasons \o Digits(count) \o NoResultsTail

\* ranked: the chunks findRelevantChunks returned; docChunks and fileName:
\* documentChunks and uploadedFile?.name of the render the function belongs
\* to (<<>> for no file).
generateResponse(q, ranked, docChunks, fileName) ==
    IF Len(ranked) = 0
    THEN NoResultsMessage(q, fileName, Len(docChunks))
    ELSE ResponsePrefix(q, ranked, docChunks) \o ResponseBody(ranked)
             \o StatsHead \o Digits(Len(ranked))
             \o StatsMax \o ToFixed1(ranked[1].score)
             \o StatsAnalysed \o Digits(Len(docChunks))

-----------------------------------------------------------------------------
(* One run of createRAGChunks, a statement at a time                       *)

\* Bound: the number of pieces an input text is put together from.
MaxPieces == 4

\* The pieces: a sentence of 11 letters, one of 10 letters, a terminator, a
\* run of two terminators, a run of two whitespace characters, and a sentence
\* of 11 letters with its terminator.
Pieces == <<Rep("a", 11), Rep("b", 10), <<".">>, <<"?", "!">>, <<" ", "\n">>,
            Rep("c", 11) \o <<".">>>>

\* Two sentences of 150 characters: together exactly the default chunk size.
LongTexts == {Rep("a", 150) \o <<".", " ">> \o Rep("b", 150) \o <<".">>}

RECURSIVE Flatten(_)
Flatten(ss) == IF ss = <<>> THEN <<>> ELSE Head(ss) \o Flatten(Tail(ss))

Texts ==
    {Flatten([i \in DOMAIN p |-> Pieces[p[i]]]) :
        p \in UNION {[1..n -> 1..Len(Pieces)] : n \in 0..MaxPieces}}

ChunkSizes == {21, 22, DefaultChunkSize}

IdleUI ==
    /\ uploadedFile = <<>> /\ documentText = <<>> /\ documentChunks = <<>>
    /\ messages = <<>> /\ ragChunks = <<>> /\ isProcessing = FALSE
    /\ extractions = EmptyBag /\ timers = <<>>
    /\ isUploading = FALSE /\ uploadProgress = 0 /\ interval = <<>>
    /\ lastCall = "none" /\ staleTimers = 0

IdleChunker ==
    /\ text = <<>> /\ chunkSize = DefaultChunkSize /\ sentences = <<>>
    /\ currentChunk = <<>> /\ chunkIndex = 0 /\ chunks = <<>> /\ cpc = "idle"
    /\ sentCount = 0 /\ chunkSentCounts = <<>>

IdleScorer ==
    /\ query = <<>> /\ chunk = MakeChunk(0, <<>>) /\ totalChunks = 1
    /\ score = <<0, 1>> /\ prevScore = <<0, 1>> /\ prevChunk = MakeChunk(0, <<>>)
    /\ additions = 0 /\ spc = "idle"

IdleAnswer ==
    /\ answerContent = <<>> /\ answerChunks = <<>> /\ answerText = <<>>
    /\ apc = "idle"

\* ChatBot before any event: nothing stored, nothing awaited.
IdleBot ==
    /\ isLoading = FALSE /\ isProcessingFile = FALSE
    /\ localStorage = [uploadedFileContent |-> <<>>, uploadedFileName |-> <<>>]
    /\ fileRequest = <<>> /\ chatRequest = <<>>

InitChunker ==
    /\ IdleUI /\ IdleScorer /\ IdleAnswer /\ IdleBot
    /\ text \in Texts \cup LongTexts
    /\ chunkSize \in ChunkSizes
    /\ sentences = <<>> /\ currentChunk = <<>> /\ chunkIndex = 0 /\ chunks = <<>>
    /\ sentCount = 0 /\ chunkSentCounts = <<>>
    /\ cpc = "call"

\* if (!text.trim()) return []; cleanText; sentences; chunks = []; ...
ChunkerEnter ==
    /\ cpc = "call"
    /\ IF Trim(text) = <<>>
       THEN /\ cpc' = "done"
            /\ UNCHANGED sentences
       ELSE /\ cpc' = "loop"
            /\ sentences' = SentencesOf(text)
    /\ UNCHANGED <<text, chunkSize, currentChunk, chunkIndex, chunks,
                   sentCount, chunkSentCounts>>
    /\ UNCHANGED <<uiVars, scorerVars, answerVars, botVars>>

\* One iteration of `for (const sentence of sentences)`.
ChunkerStep ==
    /\ cpc = "loop" /\ sentences # <<>>
    /\ LET acc == AddSentence([chunks |-> chunks, currentChunk |-> currentChunk,
                               chunkIndex |-> chunkIndex],
                              Head(sentences), chunkSize)
       IN  /\ chunks' = acc.chunks
           /\ currentChunk' = acc.currentChunk
           /\ chunkIndex' = acc.chunkIndex
           /\ IF Len(acc.chunks) > Len(chunks)
              THEN /\ chunkSentCounts' = Append(chunkSentCounts, sentCount)
                   /\ sentCount' = 1
              ELSE /\ chunkSentCounts' = chunkSentCounts
                   /\ sentCount' = sentCount + 1
    /\ sentences' = Tail(sentences)
    /\ UNCHANGED <<text, chunkSize, cpc>>
    /\ UNCHANGED <<uiVars, scorerVars, answerVars, botVars>>

\* if (currentChunk.trim()) chunks.push(...); return chunks;
ChunkerFinish ==
    /\ cpc = "loop" /\ sentences = <<>>
    /\ chunks' = LastChunk([chunks |-> chunks, currentChunk |-> currentChunk,
                            chunkIndex |-> chunkIndex])
    /\ chunkSentCounts' = IF Len(chunks') > Len(chunks)
                          THEN Append(chunkSentCounts, sentCount)
                          ELSE chunkSentCounts
    /\ cpc' = "done"
    /\ UNCHANGED <<text, chunkSize, sentences, currentChunk, chunkIndex, sentCount>>
    /\ UNCHANGED <<uiVars, scorerVars, answerVars, botVars>>

NextChunker == ChunkerEnter \/ ChunkerStep \/ ChunkerFinish

SpecChunker == InitChunker /\ [][NextChunker]_vars

\* The statement-by-statement run returns what the operator computes.
ChunkerRunIsCreateRAGChunks ==
    cpc = "done" => chunks = createRAGChunks(text, chunkSize)

-----------------------------------------------------------------------------
(* Evaluations of calculateSemanticSimilarity on a chunk that grows         *)

\* Bound: how many occurrences of a query word are added to one chunk.
MaxAdditions == 1

\* Bound: how many of the first words of a query are taken for an addition.
MaxWordChoice == 2

\* A token of three characters of which none is kept: the word is empty.
ScorerQueries == {
     <<"c", "a", "t">>,
     <<"C", "a", "t", " ", "d", "o", "g", "?">>,
     <<"c", "a", "t", " ", "d", "o", "g", " ", "f", "o", "x", " ", "o", "w",
       "l", " ", "b", "e", "e", " ", "a", "n", "t">>,
     <<"U+043A", "U+043E", "U+0442">>,
     <<"!", "!", "!">>}

ScorerBases == {
     <<"T", "h", "e", " ", "c", "a", "t", " ", "s", "a", "t", " ", "o", "n",
       " ", "t", "h", "e", " ", "m", "a", "t">>,
     <<"U+0417", "U+0434", "U+0435", "U+0441", "U+044C", " ", "U+043A",
       "U+043E", "U+0442", " ", "U+0438", " ", "U+043A", "U+043E", "U+0442",
       "U+044B">>,
     <<"n", "o", "t", "h", "i", "n", "g", " ", "h", "e", "r", "e">>}

\* The contents: a base phrase, alone or followed by one filler word that
\* brings it to a length just under a corner of the length bonus.
PaddedLengths == {MinBonusLength - 4, MaxBonusLength - 2}

Padded(base, length) == base \o <<" ">> \o Rep("z", length - Len(base) - 1)

ScorerContents ==
    ScorerBases \cup {Padded(b, n) : b \in ScorerBases, n \in PaddedLengths}

\* chunkIndex and documentChunks.length: the only chunk, the last of two,
\* the second of three.
ScorerPositions == {<<0, 1>>, <<1, 2>>, <<1, 3>>}

InitScorer ==
    /\ IdleUI /\ IdleChunker /\ IdleAnswer /\ IdleBot
    /\ query \in ScorerQueries
    /\ \E c \in ScorerContents, pos \in ScorerPositions :
           /\ chunk = MakeChunk(pos[1], c)
           /\ totalChunks = pos[2]
    /\ score = <<0, 1>> /\ prevScore = <<0, 1>> /\ prevChunk = MakeChunk(0, <<>>)
    /\ additions = 0
    /\ spc = "call"

\* score: calculateSemanticSimilarity(query, chunk)
ScoreChunk ==
    /\ spc = "call"
    /\ score' = calculateSemanticSimilarity(query, chunk, totalChunks)
    /\ spc' = "scored"
    /\ UNCHANGED <<query, chunk, totalChunks, prevScore, prevChunk, additions>>
    /\ UNCHANGED <<uiVars, chunkerVars, answerVars, botVars>>

\* Where an occurrence is added: before the content, after its first space,
\* or after the content.
InsertWord(content, word, place) ==
    LET spaces == {i \in 1..Len(content) : content[i] = " "}
        firstSpace == IF spaces = {} THEN 0
                      ELSE CHOOSE i \in spaces : \A j \in spaces : i <= j
    IN
    CASE place = "start" -> word \o <<" ">> \o content
      [] place = "middle" ->
             IF firstSpace = 0
             THEN content \o <<" ">> \o word
             ELSE SubSeq(content, 1, firstSpace) \o word \o <<" ">>
                      \o SubSeq(content, firstSpace + 1, Len(content))
      [] OTHER -> content \o <<" ">> \o word

\* The same chunk with one more occurrence of a query word, set off by
\* spaces between two words or at either end of the content, scored again.
AddOccurrence ==
    /\ spc \in {"scored", "grown"}
    /\ additions < MaxAdditions
    /\ \E i \in 1..Min({Len(QueryWords(query)), MaxWordChoice}),
          place \in {"start", "middle", "end"} :
           LET word == QueryWords(query)[i]
               content == InsertWord(chunk.content, word, place)
           IN  /\ chunk' = MakeChunk(chunk.chunkIndex, content)
               /\ score' = calculateSemanticSimilarity(query, chunk', totalChunks)
    /\ prevScore' = score
    /\ prevChunk' = chunk
    /\ additions' = additions + 1
    /\ spc' = "grown"
    /\ UNCHANGED <<query, totalChunks>>
    /\ UNCHANGED <<uiVars, chunkerVars, answerVars, botVars>>

NextScorer == ScoreChunk \/ AddOccurrence

SpecScorer == InitScorer /\ [][NextScorer]_vars

-----------------------------------------------------------------------------
(* extractTextFromFile                                                     *)

\* The text returned for a file that cannot be read, around its name.
PlaceholderHead ==
    <<"U+041E", "U+0448", "U+0438", "U+0431", "U+043A", "U+0430", " ",
      "U+043F", "U+0440", "U+0438", " ", "U+043E", "U+0431", "U+0440",
      "U+0430", "U+0431", "U+043E", "U+0442", "U+043A", "U+0435", " ",
      "U+0444", "U+0430", "U+0439", "U+043B", "U+0430", " ", "\"">>

PlaceholderTail ==
    <<"\"", ".", " ", "U+0423", "U+0431", "U+0435", "U+0434", "U+0438",
      "U+0442", "U+0435", "U+0441", "U+044C", ",", " ", "U+0447", "U+0442",
      "U+043E", " ", "U+0444", "U+0430", "U+0439", "U+043B", " ", "U+043D",
      "U+0435", " ", "U+043F", "U+043E", "U+0432", "U+0440", "U+0435",
      "U+0436", "U+0434", "U+0435", "U+043D", " ", "U+0438", " ", "U+0438",
      "U+043C", "U+0435", "U+0435", "U+0442", " ", "U+043F", "U+0440",
      "U+0430", "U+0432", "U+0438", "U+043B", "U+044C", "U+043D", "U+044B",
      "U+0439", " ", "U+0444", "U+043E", "U+0440", "U+043C", "U+0430",
      "U+0442", ".">>

PdfType == "application/pdf"

DocxType == "application/vnd.openxmlformats-officedocument.wordprocessingml.document"

\* Mutant: the catch block returns the empty string.
extractTextFromFile_Empty(file) ==
    IF file.type \in {PdfType, DocxType} /\ ~file.throws
    THEN file.extracted
    ELSE <<>>

\* A file: its name, its MIME type, the text pdf.js or mammoth extracts from
\* it, and whether the extraction throws instead.
extractTextFromFile(file) ==
    IF file.type \in {PdfType, DocxType} /\ ~file.throws
    THEN file.extracted
    ELSE PlaceholderHead \o file.name \o PlaceholderTail

-----------------------------------------------------------------------------
(* The page: Index with its FileUpload and ChatInterface                   *)

\* Bounds: the extractions pending at once, and the length of the
\* conversation at which no further query is typed.
MaxExtractions == 2

MaxMessages == 2

FileParis ==
    [name |->
        <<"p", "a", "r", "i", "s", ".", "p", "d", "f">>,
     type |-> PdfType,
     extracted |->
        <<"P", "a", "r", "i", "s", " ", "i", "s", " ", "t", "h", "e", " ",
          "c", "a", "p", "i", "t", "a", "l", " ", "o", "f", " ", "F", "r",
          "a", "n", "c", "e", ".", " ", "I", "t", " ", "h", "a", "s", " ",
          "t", "h", "e", " ", "E", "i", "f", "f", "e", "l", " ", "T", "o",
          "w", "e", "r", ".", " ", "T", "h", "e", " ", "L", "o", "u", "v",
          "r", "e", " ", "i", "s", " ", "a", " ", "f", "a", "m", "o", "u",
          "s", " ", "m", "u", "s", "e", "u", "m", ".">>,
     throws |-> FALSE]

FileBlank ==
    [name |->
        <<"b", "l", "a", "n", "k", ".", "p", "d", "f">>,
     type |-> PdfType,
     extracted |->
        <<"\n">>,
     throws |-> FALSE]

FileScan ==
    [name |->
        <<"s", "c", "a", "n", ".", "p", "d", "f">>,
     type |-> PdfType,
     extracted |->
        <<>>,
     throws |-> TRUE]

\* The files the user picks: a document, a PDF of one page without text, and
\* a PDF that pdf.js cannot read.
Files == {FileParis, FileBlank, FileScan}

\* What the user types: a word of the document, a word of no text, a blank.
Inputs == {
     <<" ", "c", "a", "p", "i", "t", "a", "l">>,
     <<"z", "e", "b", "r", "a">>,
     <<" ">>}

\* uploadedFile?.name of a state uploadedFile that is <<>> (null) or <<file>>
FileName(maybeFile) == IF maybeFile = <<>> THEN <<>> ELSE maybeFile[1].name

Init == IdleUI /\ IdleChunker /\ IdleScorer /\ IdleAnswer /\ IdleBot

\* FileUpload.handleFileUpload, reached from handleFileSelect and handleDrop
\* while the card takes pointer events (isUploading is false): the interval
\* starts.
FileSelect(file) ==
    /\ ~isUploading
    /\ BagCardinality(extractions) < MaxExtractions
    /\ isUploading' = TRUE
    /\ uploadProgress' = 0
    /\ interval' = <<file>>
    /\ lastCall' = "FileSelect"
    /\ UNCHANGED <<uploadedFile, documentText, documentChunks, messages, ragChunks,
                   isProcessing, extractions, timers, staleTimers>>
    /\ UNCHANGED <<chunkerVars, scorerVars, answerVars, botVars>>

\* if (prev >= 100)
ProgressDone == 100

\* Mutant: setDocumentChunks([]) is missing before the await.
handleFileUpload_KeepsChunks(file) ==
    /\ uploadedFile' = <<file>>
    /\ messages' = <<>>
    /\ ragChunks' = <<>>
    /\ extractions' = extractions (+) SetToBag({file})
    /\ staleTimers' = Len(timers)
    /\ UNCHANGED <<documentText, documentChunks, isProcessing, timers>>

\* Index.handleFileUpload up to its await: the session is cleared and the
\* extraction of the file starts.
handleFileUpload(file) ==
    /\ uploadedFile' = <<file>>
    /\ messages' = <<>>
    /\ ragChunks' = <<>>
    /\ documentChunks' = <<>>
    /\ extractions' = extractions (+) SetToBag({file})
    /\ staleTimers' = Len(timers)
    /\ UNCHANGED <<documentText, isProcessing, timers>>

\* The ticks of the interval of FileUpload.handleFileUpload that find a
\* progress below 100, taken together: each adds 10 to uploadProgress, which
\* only the progress bar shows.
IntervalCounts ==
    /\ interval # <<>>
    /\ uploadProgress < ProgressDone
    /\ uploadProgress' = ProgressDone
    /\ lastCall' = "IntervalCounts"
    /\ UNCHANGED <<uploadedFile, documentText, documentChunks, messages,
                   ragChunks, isProcessing, extractions, timers,
                   isUploading, interval, staleTimers>>
    /\ UNCHANGED <<chunkerVars, scorerVars, answerVars, botVars>>

\* The tick that finds the progress at 100: the interval is cleared and
\* onFileUpload(file), Index.handleFileUpload, runs.
IntervalEnds ==
    /\ interval # <<>>
    /\ uploadProgress >= ProgressDone
    /\ interval' = <<>>
    /\ isUploading' = FALSE
    /\ uploadProgress' = ProgressDone
    /\ handleFileUpload(interval[1])
    /\ lastCall' = "handleFileUpload"
    /\ UNCHANGED <<chunkerVars, scorerVars, answerVars, botVars>>

\* Index.handleFileUpload after its await: the text and the chunks are set.
ExtractionDone(file) ==
    /\ BagIn(file, extractions)
    /\ LET extractedText == extractTextFromFile(file)
       IN  /\ documentText' = extractedText
           /\ documentChunks' = createRAGChunks(extractedText, DefaultChunkSize)
    /\ extractions' = extractions (-) SetToBag({file})
    /\ lastCall' = "extracted"
    /\ UNCHANGED <<uploadedFile, messages, ragChunks, isProcessing, timers,
                   isUploading, uploadProgress, interval, staleTimers>>
    /\ UNCHANGED <<chunkerVars, scorerVars, answerVars, botVars>>

\* Mutant: only the text is tested, as where the text is split per query.
RefusesQuery_TextOnly == documentText = <<>>

\* Index.handleSendMessage refuses the query: no text or no chunk.
RefusesQuery == documentText = <<>> \/ Len(documentChunks) = 0

\* Index.handleSendMessage(content)
handleSendMessage(content) ==
    IF RefusesQuery
    THEN /\ lastCall' = "ignored"
         /\ UNCHANGED <<messages, isProcessing, timers>>
    ELSE /\ messages' = Append(messages, [role |-> "user", content |-> content])
         /\ isProcessing' = TRUE
         /\ timers' = Append(timers, [content |-> content,
                                      documentChunks |-> documentChunks,
                                      uploadedFile |-> uploadedFile])
         /\ lastCall' = "sent"

\* Mutant: handleSend does not test isProcessing.
handleSend_Ungated(input) ==
    /\ Len(messages) < MaxMessages
    /\ IF Trim(input) # <<>>
       THEN handleSendMessage(Trim(input))
       ELSE UNCHANGED <<messages, isProcessing, timers, lastCall>>
    /\ UNCHANGED <<uploadedFile, documentText, documentChunks, ragChunks,
                   extractions, isUploading, uploadProgress, interval, staleTimers>>
    /\ UNCHANGED <<chunkerVars, scorerVars, answerVars, botVars>>

\* ChatInterface.handleSend with inputValue = input
handleSend(input) ==
    /\ Len(messages) < MaxMessages
    /\ IF Trim(input) # <<>> /\ ~isProcessing
       THEN handleSendMessage(Trim(input))
       ELSE UNCHANGED <<messages, isProcessing, timers, lastCall>>
    /\ UNCHANGED <<uploadedFile, documentText, documentChunks, ragChunks,
                   extractions, isUploading, uploadProgress, interval, staleTimers>>
    /\ UNCHANGED <<chunkerVars, scorerVars, answerVars, botVars>>

\* Mutant: the callback leaves isProcessing as it is.
TimerFires_KeepsProcessing ==
    /\ timers # <<>>
    /\ LET t == Head(timers)
           relevantChunks == findRelevantChunks(t.content, t.documentChunks)
           responseText == generateResponse(t.content, relevantChunks,
                                            t.documentChunks, FileName(t.uploadedFile))
       IN  /\ messages' = Append(messages, [role |-> "assistant", content |-> responseText])
           /\ ragChunks' = relevantChunks
    /\ timers' = Tail(timers)
    /\ staleTimers' = IF staleTimers > 0 THEN staleTimers - 1 ELSE 0
    /\ lastCall' = "timer"
    /\ UNCHANGED <<uploadedFile, documentText, documentChunks, extractions,
                   isUploading, uploadProgress, interval, isProcessing>>
    /\ UNCHANGED <<chunkerVars, scorerVars, answerVars, botVars>>

\* Mutant: the callback reads the chunks of the latest render.
TimerFires_LatestChunks ==
    /\ timers # <<>>
    /\ LET t == Head(timers)
           relevantChunks == findRelevantChunks(t.content, documentChunks)
           responseText == generateResponse(t.content, relevantChunks,
                                            documentChunks, FileName(t.uploadedFile))
       IN  /\ messages' = Append(messages, [role |-> "assistant", content |-> responseText])
           /\ ragChunks' = relevantChunks
    /\ isProcessing' = FALSE
    /\ timers' = Tail(timers)
    /\ staleTimers' = IF staleTimers > 0 THEN staleTimers - 1 ELSE 0
    /\ lastCall' = "timer"
    /\ UNCHANGED <<uploadedFile, documentText, documentChunks, extractions,
                   isUploading, uploadProgress, interval>>
    /\ UNCHANGED <<chunkerVars, scorerVars, answerVars, botVars>>

\* The callback handleSendMessage gave to setTimeout, with the documentChunks
\* and the uploadedFile of the render that made it.
TimerFires ==
    /\ timers # <<>>
    /\ LET t == Head(timers)
           relevantChunks == findRelevantChunks(t.content, t.documentChunks)
           responseText == generateResponse(t.content, relevantChunks,
                                            t.documentChunks, FileName(t.uploadedFile))
       IN  /\ messages' = Append(messages, [role |-> "assistant", content |-> responseText])
           /\ ragChunks' = relevantChunks
    /\ isProcessing' = FALSE
    /\ timers' = Tail(timers)
    /\ staleTimers' = IF staleTimers > 0 THEN staleTimers - 1 ELSE 0
    /\ lastCall' = "timer"
    /\ UNCHANGED <<uploadedFile, documentText, documentChunks, extractions,
                   isUploading, uploadProgress, interval>>
    /\ UNCHANGED <<chunkerVars, scorerVars, answerVars, botVars>>

Next ==
    \/ \E file \in Files : FileSelect(file)
    \/ IntervalCounts
    \/ IntervalEnds
    \/ \E file \in Files : ExtractionDone(file)
    \/ \E input \in Inputs : handleSend(input)
    \/ TimerFires

Spec == Init /\ [][Next]_vars

\* The event loop runs the callback of the timer set first: the step of
\* TimerFires, told by what it does to the timers alone.
TimerRuns == timers # <<>> /\ timers' = Tail(timers)

\* The steps of the page that remove a timer are those of TimerFires.
TimerRunsIsTimerFires == [][TimerRuns <=> TimerFires]_vars

\* The page when a timer set by setTimeout(..., 1000) does fire: the event
\* loop runs a callback whose delay has passed, and nothing clears the timer.
SpecFair == Spec /\ WF_timers(TimerRuns)

-----------------------------------------------------------------------------
(* The timer callback of handleSendMessage, a statement at a time, on the  *)
(* page states of a set of documents                                       *)

\* A sentence: words, then one filler word that brings it to a length.
Sentence(words, length) ==
    IF Len(words) >= length THEN words ELSE Padded(words, length)

\* The text of a document made of sentences.
TextOf(ss) == Flatten([i \in 1..Len(ss) |-> ss[i] \o <<".", " ">>])

\* The lengths of the sentences: one that fits no chunk with another, one of
\* the least length createRAGChunks keeps, one that fits with no sentence of
\* its own length.
AloneLength == DefaultChunkSize - 5

ShortLength == MinSentenceLength + 1

HalfLength == DefaultChunkSize \div 2 + 10

\* The words the sentences of the documents start with.
Words ==
    [
     cats |->
        <<"c", "a", "t", " ", "c", "a", "t", " ", "c", "a", "t">>,
     dogs |->
        <<"d", "o", "g", " ", "d", "o", "g", " ", "d", "o", "g">>,
     catSat |->
        <<"T", "h", "e", " ", "c", "a", "t", " ", "s", "a", "t", " ", "o",
          "n", " ", "t", "h", "e", " ", "m", "a", "t">>,
     nothing |->
        <<"n", "o", "t", "h", "i", "n", "g", " ", "h", "e", "r", "e">>,
     twoCats |->
        <<"A", " ", "d", "o", "g", " ", "a", "n", "d", " ", "a", " ", "c",
          "a", "t", " ", "a", "n", "d", " ", "a", " ", "C", "a", "t">>,
     category |->
        <<"a", " ", "c", "a", "t", "e", "g", "o", "r", "y", " ", "o", "f",
          " ", "t", "h", "i", "n", "g", "s">>,
     abstract |->
        <<"A", "b", "s", "t", "r", "a", "c", "t", " ", "o", "f", " ", "t",
          "h", "e", " ", "p", "a", "p", "e", "r">>,
     heading |->
        <<"A", " ", "h", "e", "a", "d", "i", "n", "g", " ", "o", "f", " ",
          "t", "w", "o", " ", "h", "u", "n", "d", "r", "e", "d">>,
     deep |->
        <<"D", "e", "e", "p", " ", "l", "e", "a", "r", "n", "i", "n", "g",
          " ", "f", "o", "r", " ", "c", "a", "t", "s">>,
     shortTitle |->
        <<"S", "h", "o", "r", "t", " ", "t", "i", "t", "l", "e">>,
     introduction |->
        <<"A", "n", " ", "I", "N", "T", "R", "O", "D", "U", "C", "T", "I",
          "O", "N", " ", "t", "o", " ", "t", "h", "e", " ", "c", "a", "t">>,
     keywords |->
        <<"K", "e", "y", "w", "o", "r", "d", "s", " ", "c", "a", "t", " ",
          "c", "a", "t", " ", "c", "a", "t">>,
     fine |->
        <<"A", " ", "f", "i", "n", "e", " ", "t", "i", "t", "l", "e", " ",
          "o", "f", " ", "t", "h", "e", " ", "c", "a", "t">>,
     theCat |->
        <<"t", "h", "e", " ", "c", "a", "t", " ", "a", "n", "d", " ", "t",
          "h", "e", " ", "a", "u", "t", "h", "o", "r">>
    ]

\* The texts of the documents.
\* ranked: twelve chunks, three that reach the greatest score for the query
\*   "cat" and others that match it once, twice, inside a word or not at
\*   all; the last has no match, no length bonus and the least position bonus.
\* skip: the third chunk is the first that looks like a title; the first
\*   names the abstract, the second has 200 characters.
\* first: the first chunk is a short line.
\* none: none of the first three chunks looks like a title; the fourth would.
DocumentTexts ==
    [ranked |->
        TextOf(<<Sentence(Words.cats, ShortLength),
                 Sentence(Words.catSat, AloneLength),
                 Sentence(Words.cats, ShortLength),
                 Sentence(Words.nothing, AloneLength),
                 Sentence(Words.twoCats, AloneLength),
                 Sentence(Words.category, AloneLength),
                 Sentence(Words.cats, ShortLength),
                 Sentence(Words.nothing, AloneLength),
                 Sentence(Words.catSat, AloneLength),
                 Sentence(Words.nothing, AloneLength),
                 Sentence(Words.nothing, AloneLength),
                 Sentence(Words.dogs, ShortLength)>>),
     skip |->
        TextOf(<<Sentence(Words.abstract, HalfLength),
                 Sentence(Words.heading, MaxTitleLength),
                 Sentence(Words.deep, HalfLength),
                 Sentence(Words.cats, HalfLength)>>),
     first |->
        TextOf(<<Sentence(Words.shortTitle, ShortLength),
                 Sentence(Words.introduction, AloneLength),
                 Sentence(Words.theCat, AloneLength)>>),
     none |->
        TextOf(<<Sentence(Words.abstract, HalfLength),
                 Sentence(Words.introduction, HalfLength),
                 Sentence(Words.keywords, HalfLength),
                 Sentence(Words.fine, HalfLength)>>)]

\* The file of a text: its name is the text's name and ".pdf".
DocumentFile(key) ==
    [name |-> [i \in 1..Len(key) |-> SubSeq(key, i, i)] \o <<".", "p", "d", "f">>,
     type |-> PdfType, extracted |-> DocumentTexts[key], throws |-> FALSE]

AnswerFiles == {DocumentFile(key) : key \in DOMAIN DocumentTexts} \cup {FileParis, FileScan}


\* What the user asks.
Ask ==
    [
     cat |->
        <<"c", "a", "t">>,
     dog |->
        <<"D", "o", "g", "?">>,
     fox |->
        <<"f", "o", "x">>,
     twoLetters |->
        <<"a", "b">>,
     shortTokens |->
        <<"a", " ", "b", "\t", "c", " ", "!", "?">>,
     isIt |->
        <<" ", "i", "s", " ", "i", "t", " ">>,
     title |->
        <<"t", "i", "t", "l", "e">>,
     untitled |->
        <<"W", "h", "a", "t", " ", "i", "s", " ", "t", "h", "e", " ", "T",
          "I", "T", "L", "E", " ", "o", "f", " ", "t", "h", "e", " ", "c",
          "a", "t", "?">>,
     nazvanie |->
        <<"U+043D", "U+0430", "U+0437", "U+0432", "U+0430", "U+043D",
          "U+0438", "U+0435">>,
     titleAuthor |->
        <<"a", "u", "t", "h", "o", "r", " ", "a", "n", "d", " ", "t", "i",
          "t", "l", "e">>,
     authorAbstract |->
        <<"a", "b", "s", "t", "r", "a", "c", "t", " ", "b", "y", " ", "t",
          "h", "e", " ", "a", "u", "t", "h", "o", "r">>,
     abstractConclusion |->
        <<"c", "o", "n", "c", "l", "u", "s", "i", "o", "n", " ", "o", "f",
          " ", "t", "h", "e", " ", "a", "b", "s", "t", "r", "a", "c", "t">>,
     conclusion |->
        <<"c", "o", "n", "c", "l", "u", "s", "i", "o", "n">>,
     avtor |->
        <<"U+0410", "U+0432", "U+0442", "U+043E", "U+0440">>,
     vyvod |->
        <<"U+0432", "U+044B", "U+0432", "U+043E", "U+0434", " ", "U+0438",
          " ", "U+0440", "U+0435", "U+0437", "U+044E", "U+043C", "U+0435">>,
     capital |->
        <<"c", "a", "p", "i", "t", "a", "l">>
    ]

AnswerQueries == {Ask[key] : key \in DOMAIN Ask}

\* Bound: how many times the query is asked.
MaxAsked == 2

\* The page when the timer of a query is pending: the document is
\* extracted, the user's message is shown.
InitAnswer ==
    /\ IdleChunker /\ IdleScorer /\ IdleBot
    /\ \E file \in AnswerFiles :
           /\ uploadedFile = <<file>>
           /\ documentText = extractTextFromFile(file)
           /\ documentChunks = createRAGChunks(documentText, DefaultChunkSize)
    /\ answerContent \in AnswerQueries
    /\ messages = <<[role |-> "user", content |-> answerContent]>>
    /\ ragChunks = <<>> /\ isProcessing = TRUE
    /\ extractions = EmptyBag
    /\ timers = <<[content |-> answerContent, documentChunks |-> documentChunks,
                   uploadedFile |-> uploadedFile]>>
    /\ isUploading = FALSE /\ uploadProgress = ProgressDone /\ interval = <<>>
    /\ lastCall = "sent" /\ staleTimers = 0
    /\ answerChunks = <<>> /\ answerText = <<>> /\ apc = "call"

\* const relevantChunks = findRelevantChunks(content)
AnswerRank ==
    /\ apc = "call"
    /\ answerChunks' = findRelevantChunks(Head(timers).content,
                                          Head(timers).documentChunks)
    /\ apc' = "ranked"
    /\ UNCHANGED <<answerContent, answerText>>
    /\ UNCHANGED <<uiVars, chunkerVars, scorerVars, botVars>>

\* const responseText = generateResponse(content, relevantChunks, documentText)
AnswerRespond ==
    /\ apc = "ranked"
    /\ answerText' = generateResponse(Head(timers).content, answerChunks,
                                      Head(timers).documentChunks,
                                      FileName(Head(timers).uploadedFile))
    /\ apc' = "responded"
    /\ UNCHANGED <<answerContent, answerChunks>>
    /\ UNCHANGED <<uiVars, chunkerVars, scorerVars, botVars>>

\* setMessages(prev => [...prev, assistantMessage]); setRagChunks(...);
\* setIsProcessing(false)
AnswerShow ==
    /\ apc = "responded"
    /\ messages' = Append(messages, [role |-> "assistant", content |-> answerText])
    /\ ragChunks' = answerChunks
    /\ isProcessing' = FALSE
    /\ timers' = Tail(timers)
    /\ lastCall' = "timer"
    /\ apc' = "done"
    /\ UNCHANGED <<uploadedFile, documentText, documentChunks, extractions,
                   isUploading, uploadProgress, interval, staleTimers>>
    /\ UNCHANGED <<answerContent, answerChunks, answerText>>
    /\ UNCHANGED <<chunkerVars, scorerVars, botVars>>

\* The user asks the same again: handleSendMessage(content)
AnswerAgain ==
    /\ apc = "done"
    /\ Len(messages) < 2 * MaxAsked
    /\ handleSendMessage(answerContent)
    /\ apc' = "call"
    /\ UNCHANGED <<uploadedFile, documentText, documentChunks, ragChunks,
                   extractions, isUploading, uploadProgress, interval, staleTimers>>
    /\ UNCHANGED <<answerContent, answerChunks, answerText>>
    /\ UNCHANGED <<chunkerVars, scorerVars, botVars>>

NextAnswer == AnswerRank \/ AnswerRespond \/ AnswerShow \/ AnswerAgain

SpecAnswer == InitAnswer /\ [][NextAnswer]_vars

\* The statement-by-statement run shows what TimerFires shows.
AnswerRunIsTimerFires ==
    apc = "done" =>
        /\ ragChunks = findRelevantChunks(answerContent, documentChunks)
        /\ messages[Len(messages)].content =
               generateResponse(answerContent, ragChunks, documentChunks,
                                FileName(uploadedFile))

-----------------------------------------------------------------------------
(* Claims about the page (specification Spec)                              *)

\* A step of ChatInterface.handleSend that reached handleSendMessage.
SendStep == lastCall' \in {"ignored", "sent"}

\* A step of handleSendMessage that returned at once and left the page's
\* state as it was.
IgnoredStep ==
    /\ lastCall' = "ignored"
    /\ UNCHANGED <<uploadedFile, documentText, documentChunks, messages, ragChunks,
                   isProcessing, extractions, timers, isUploading, uploadProgress,
                   interval>>

\* A step in which the oldest pending timer fires.
TimerStep == Len(timers') < Len(timers)

\* C1 (as stated): the answer of a query that was pending when
\* handleFileUpload cleared the session is discarded: its timer neither
\* appends to messages nor sets ragChunks.
C1_StaleAnswerDiscarded ==
    [][(TimerStep /\ staleTimers > 0) =>
           (messages' = messages /\ ragChunks' = ragChunks)]_vars

\* C2 (as stated): whenever no extraction is pending, documentChunks is
\* createRAGChunks of the text of the displayed file.
C2_ChunksOfDisplayedFile ==
    (extractions = EmptyBag /\ uploadedFile # <<>>) =>
        documentChunks =
            createRAGChunks(extractTextFromFile(uploadedFile[1]), DefaultChunkSize)

\* C3: the step that starts an upload empties messages, ragChunks and
\* documentChunks and sets uploadedFile to the new file; the chunk set then
\* stays empty in every step in which no extraction completes; and with an
\* empty chunk set every query that reaches handleSendMessage is ignored.
C3_UploadClearsSession ==
    [][/\ (interval # <<>> /\ interval' = <<>>) =>
              /\ uploadedFile' = interval
              /\ messages' = <<>> /\ ragChunks' = <<>> /\ documentChunks' = <<>>
       /\ (documentChunks = <<>>
             /\ BagCardinality(extractions') >= BagCardinality(extractions)) =>
              documentChunks' = <<>>
       /\ (documentChunks = <<>> /\ SendStep) => IgnoredStep]_vars

\* A query was ignored while an extraction was pending and the text of the
\* document before was still in documentText.
C3_Witness ==
    /\ lastCall = "ignored"
    /\ extractions # EmptyBag
    /\ documentChunks = <<>>
    /\ documentText # <<>>

\* C4: with no uploaded file, no text or no chunk, a query that reaches
\* handleSendMessage is ignored: no message, no timer, and messages,
\* ragChunks and isProcessing as before.
C4_QueryWithoutDocumentIgnored ==
    [][((uploadedFile = <<>> \/ documentText = <<>> \/ Len(documentChunks) = 0)
          /\ SendStep) => IgnoredStep]_vars

\* A query was ignored before any file was uploaded.
C4_Witness == lastCall = "ignored" /\ uploadedFile = <<>>

\* C5 (as stated): once a document whose text is blank is uploaded and
\* extracted, the chunk set is empty and no query is ignored: each gets the
\* answer for an empty ranking, with 0 chunks.
C5_BlankDocumentAnswered ==
    (/\ uploadedFile # <<>>
     /\ extractions = EmptyBag
     /\ Trim(documentText) = <<>>
     /\ Trim(extractTextFromFile(uploadedFile[1])) = <<>>) =>
        /\ documentChunks = <<>>
        /\ lastCall # "ignored"
        /\ lastCall = "timer" =>
               messages[Len(messages)].content =
                   NoResultsMessage(messages[Len(messages) - 1].content,
                                    FileName(uploadedFile), 0)

-----------------------------------------------------------------------------
(* Claims about createRAGChunks (specification SpecChunker)                *)

ChunkContents == [i \in 1..Len(chunks) |-> chunks[i].content]

\* The candidates: the whitespace-normalised text split on runs of . ! ?
Candidates(t) == SplitRuns(Trim(CollapseWhitespace(t)), Terminators)

\* The trimmed candidates of at least n characters, in their order.
CandidatesOfAtLeast(t, n) ==
    LET Keeps(s) == Len(Trim(s)) >= n
        kept == SelectSeq(Candidates(t), Keeps)
    IN  [i \in 1..Len(kept) |-> Trim(kept[i])]

\* C6 (as stated): every returned chunk made of two or more sentences has a
\* content of at most chunkSize characters.
C6_MultiSentenceChunkFits ==
    cpc = "done" =>
        \A i \in 1..Len(chunks) :
            chunkSentCounts[i] >= 2 => Len(chunks[i].content) <= chunkSize

C8_IndicesContiguousIdsDistinct ==
    cpc = "done" =>
        /\ \A i \in 1..Len(chunks) :
               /\ chunks[i].chunkIndex = i - 1
               /\ chunks[i].id = "chunk_" \o ToString(chunks[i].chunkIndex)
        /\ \A i, j \in 1..Len(chunks) : i # j => chunks[i].id # chunks[j].id

\* A run that returned three chunks.
C8_Witness == cpc = "done" /\ Len(chunks) >= 3

\* C9: every returned chunk has a content that is not blank, and a blank
\* input returns no chunk.
C9_NoBlankChunk ==
    cpc = "done" =>
        /\ \A i \in 1..Len(chunks) : Trim(chunks[i].content) # <<>>
        /\ Trim(text) = <<>> => chunks = <<>>

\* A finished run on an input of whitespace only.
C9_Witness == cpc = "done" /\ text # <<>> /\ Trim(text) = <<>> /\ chunks = <<>>
-----------------------------------------------------------------------------
(* Claims about calculateSemanticSimilarity (specification SpecScorer)      *)

\* The addition took the content out of the range of the length bonus.
LostLengthBonus ==
    /\ Len(prevChunk.content) >= MinBonusLength
    /\ Len(prevChunk.content) <= MaxBonusLength
    /\ Len(chunk.content) > MaxBonusLength

\* The addition is one more match of \bword\b for some query word.
AddedExactMatch ==
    \E i \in 1..Len(QueryWords(query)) :
        ExactMatches(ToLowerCase(chunk.content), QueryWords(query)[i])
            > ExactMatches(ToLowerCase(prevChunk.content), QueryWords(query)[i])

\* C10 (as stated): one more whole-word occurrence of a query word, one the
\* scorer counts as an exact match, never lowers the score of the chunk,
\* whatever the number of query words and the lengths before and after.
C10_AddingNeverLowersScore ==
    (spc = "grown" /\ AddedExactMatch) => FLeq(prevScore, score)

\* C10 (amended): one more whole-word occurrence of a query word never
\* lowers the score of the chunk unless the addition takes the content from
\* a length of 100 to 500 characters to a length above 500.
C10_AddingKeepsScoreWithinBonus ==
    (spc = "grown" /\ ~LostLengthBonus) => FLeq(prevScore, score)

\* A chunk that reached a length of 100 by an addition that added an exact
\* match and raised the score.
C10_Witness ==
    /\ spc = "grown"
    /\ Len(prevChunk.content) < MinBonusLength
    /\ Len(chunk.content) >= MinBonusLength
    /\ AddedExactMatch
    /\ FLess(prevScore, score)

\* C13: every score calculateSemanticSimilarity returns is at least 0 and at
\* most 1.
C13_ScoreInUnitRange ==
    spc \in {"scored", "grown"} =>
        /\ FLeq(<<0, 1>>, score)
        /\ FLeq(score, <<1, 1>>)

\* What the query words add to the score, before the division.
WordsSum == SumWordScores(ToLowerCase(chunk.content), QueryWords(query))

\* A score of exactly 1 for words that add more than 1 each on average.
C13_Witness ==
    /\ spc = "grown"
    /\ score = <<1, 1>>
    /\ QueryWords(query) # <<>>
    /\ FLess(<<Len(QueryWords(query)), 1>>, WordsSum)

\* The letters of lower-cased text.
Letters ==
    {"a", "b", "c", "d", "e", "f", "g", "h", "i", "j", "k", "l", "m", "n", "o",
     "p", "q", "r", "s", "t", "u", "v", "w", "x", "y", "z"} \cup Cyrillic

\* The occurrences of word in s that have no letter right before or after.
DelimitedOccurrences(s, word) ==
    {i \in 1..(Len(s) - Len(word) + 1) :
        /\ OccursAt(s, word, i)
        /\ i > 1 => s[i - 1] \notin Letters
        /\ i + Len(word) <= Len(s) => s[i + Len(word)] \notin Letters}

\* What a word adds when each delimited occurrence adds 0.5, in twentieths.
DelimitedWordScore(chunkLower, word) ==
    LET v == Variations(word)
    IN  Frac(10 * Cardinality(DelimitedOccurrences(chunkLower, word))
             + (IF Includes(chunkLower, word) THEN 4 ELSE 0)
             + Cardinality({i \in 1..Len(v) : Includes(chunkLower, v[i])}),
             20)

RECURSIVE SumDelimitedWordScores(_, _)
SumDelimitedWordScores(chunkLower, words) ==
    IF words = <<>> THEN <<0, 1>>
    ELSE FAdd(DelimitedWordScore(chunkLower, Head(words)),
              SumDelimitedWordScores(chunkLower, Tail(words)))

\* C15 (as stated): for every query word of Latin or Cyrillic letters, each
\* occurrence in the lower-cased content with a non-letter or the end of the
\* text on both sides adds 0.5 to the score before the division: the score is
\* the one computed with 0.5 for each such occurrence.
C15_DelimitedOccurrencesCount ==
    (/\ spc \in {"scored", "grown"}
     /\ QueryWords(query) # <<>>
     /\ \A i \in 1..Len(QueryWords(query)) :
            /\ QueryWords(query)[i] # <<>>
            /\ \A k \in 1..Len(QueryWords(query)[i]) :
                   QueryWords(query)[i][k] \in Letters) =>
        LET sum == SumDelimitedWordScores(ToLowerCase(chunk.content),
                                          QueryWords(query))
        IN  score = FMin(FAdd(FAdd(Frac(sum[1], sum[2] * Len(QueryWords(query))),
                                   LengthBonus(chunk.content)),
                              PositionBonus(chunk.chunkIndex, totalChunks)),
                         <<1, 1>>)

\* The position bonus in a score below 1: what is left of it without the
\* words' share and the length bonus.
PositionBonusInScore ==
    FSub(score, FAdd(Frac(WordsSum[1], WordsSum[2] * Len(QueryWords(query))),
                     LengthBonus(chunk.content)))

ShowsPositionBonus ==
    /\ spc \in {"scored", "grown"}
    /\ QueryWords(query) # <<>>
    /\ FLess(score, <<1, 1>>)

\* C16 (as stated): the position bonus is 0.1 for chunkIndex 0, does not
\* increase with chunkIndex, and is 0 for the last chunk.
C16_PositionBonusEndsAtZero ==
    ShowsPositionBonus =>
        LET bonus == PositionBonusInScore
        IN  /\ chunk.chunkIndex = 0 => bonus = <<1, 10>>
            /\ \A i \in 0..(chunk.chunkIndex - 1) :
                   FLeq(bonus, PositionBonus(i, totalChunks))
            /\ chunk.chunkIndex = totalChunks - 1 => bonus = <<0, 1>>

\* C16 (amended): the position bonus is 0.1 for chunkIndex 0, does not
\* increase with chunkIndex, and is 0.1 / totalChunks, more than 0, for the
\* last chunk.
C16_PositionBonusEndsAboveZero ==
    ShowsPositionBonus =>
        LET bonus == PositionBonusInScore
        IN  /\ chunk.chunkIndex = 0 => bonus = <<1, 10>>
            /\ \A i \in 0..(chunk.chunkIndex - 1) :
                   FLeq(bonus, PositionBonus(i, totalChunks))
            /\ chunk.chunkIndex = totalChunks - 1 =>
                   /\ bonus = Frac(1, 10 * totalChunks)
                   /\ FLess(<<0, 1>>, bonus)

\* The last of several chunks was scored below 1.
C16_Witness ==
    /\ ShowsPositionBonus
    /\ totalChunks > 1
    /\ chunk.chunkIndex = totalChunks - 1

-----------------------------------------------------------------------------
(* Claims about the answer to a query (specification SpecAnswer)           *)

\* The whitespace-separated tokens of a query.
Tokens(q) == SplitRuns(q, WhiteSpace)

NoLongToken(q) == \A i \in 1..Len(Tokens(q)) : Len(Tokens(q)[i]) <= 2

\* The scores of the chunks of the page for the query that is answered.
ChunkScores ==
    LET n == Len(documentChunks)
    IN  SubSeq([i \in 1..n |->
                   calculateSemanticSimilarity(answerContent, documentChunks[i], n)],
               1, n)

FEqual(a, b) == ~FLess(a, b) /\ ~FLess(b, a)

\* C11: when no token of the query has more than 2 characters, every chunk
\* scores exactly 0 (no bonus), the ranking is empty and the answer is the
\* no-results message.
C11_ShortTokensNoResults ==
    (NoLongToken(answerContent) /\ apc \in {"ranked", "responded", "done"}) =>
        /\ ChunkScores = [i \in 1..Len(documentChunks) |-> <<0, 1>>]
        /\ answerChunks = <<>>
        /\ apc # "ranked" =>
               answerText = NoResultsMessage(answerContent, FileName(uploadedFile),
                                             Len(documentChunks))

\* A query of short tokens was answered on a document of several chunks,
\* some of them of a length that earns the length bonus.
C11_Witness ==
    /\ apc = "done"
    /\ NoLongToken(answerContent)
    /\ Len(Tokens(answerContent)) >= 2
    /\ \E i \in 1..Len(documentChunks) :
           LengthBonus(documentChunks[i].content) # <<0, 1>>
    /\ messages[Len(messages)].content = answerText

\* The chunks that score more than 0.01, s being the chunks' scores.
Passing(s) == {i \in 1..Len(s) : FLess(<<1, 100>>, s[i])}

\* Chunk i comes before chunk j: it scores more, or the same with a lesser
\* chunkIndex.
Outranks(s, i, j) ==
    \/ FLess(s[j], s[i])
    \/ FEqual(s[i], s[j])
           /\ documentChunks[i].chunkIndex < documentChunks[j].chunkIndex

RankOf(s, i) == 1 + Cardinality({j \in Passing(s) : Outranks(s, j, i)})

\* C12: the ranking is the first five (or fewer) of the chunks that score
\* more than 0.01, by descending score and, for equal scores, ascending
\* chunkIndex: the chunk of rank k is at place k, and nothing else is there.
C12_RankingIsTopFive ==
    apc \in {"ranked", "responded", "done"} =>
        LET s == ChunkScores
            passing == Passing(s)
        IN  /\ Len(answerChunks) = Min({TopResults, Cardinality(passing)})
            /\ \A i \in passing :
                   RankOf(s, i) <= TopResults =>
                       answerChunks[RankOf(s, i)] =
                           [content |-> documentChunks[i].content,
                            score |-> s[i],
                            source |-> SourceOf(documentChunks[i])]

\* A ranking of five with equal scores in it, of a document that has more
\* than five chunks above 0.01 and one chunk that is not above it.
C12_Witness ==
    /\ apc = "done"
    /\ Len(answerChunks) = TopResults
    /\ Cardinality(Passing(ChunkScores)) > TopResults
    /\ Cardinality(Passing(ChunkScores)) < Len(documentChunks)
    /\ FEqual(answerChunks[1].score, answerChunks[2].score)
    /\ FLess(answerChunks[5].score, answerChunks[4].score)

\* C17: the answer is the no-results message exactly when the ranking is
\* empty; the message contains the query, the file's name and the number
\* of chunks.
C17_NoResultsIffEmptyRanking ==
    apc \in {"responded", "done"} =>
        /\ (answerChunks = <<>>) <=>
               (SubSeq(answerText, 1, Len(NoResultsHead)) = NoResultsHead)
        /\ answerChunks = <<>> =>
               /\ Includes(answerText, NoResultsHead \o uploadedFile[1].name)
               /\ Includes(answerText, NoResultsMiddle \o answerContent
                                           \o NoResultsReasons)
               /\ Includes(answerText, NoResultsReasons
                                           \o Digits(Len(documentChunks))
                                           \o NoResultsTail)

\* An empty ranking of a document of twelve chunks was answered.
C17_Witness ==
    /\ apc = "done"
    /\ answerChunks = <<>>
    /\ Len(documentChunks) >= 10
    /\ SubSeq(answerText, 1, Len(NoResultsHead)) = NoResultsHead

StartsWith(s, p) == Len(p) <= Len(s) /\ SubSeq(s, 1, Len(p)) = p

\* The keyword groups in their order, each with the prefixes it has.
PrefixGroups ==
    <<[keywords |-> TitleKeywords, prefixes |-> {TitlePrefix, PossibleTitlePrefix}],
      [keywords |-> AuthorKeywords, prefixes |-> {AuthorPrefix}],
      [keywords |-> AbstractKeywords, prefixes |-> {AbstractPrefix}],
      [keywords |-> ConclusionKeywords, prefixes |-> {ConclusionPrefix}]>>

\* The groups of which the query contains a keyword.
GroupsOf(q) ==
    {g \in 1..Len(PrefixGroups) : IncludesAny(ToLowerCase(q), PrefixGroups[g].keywords)}

Answered == apc \in {"responded", "done"} /\ answerChunks # <<>>

\* C18: the answer starts with a prefix of the first group, in the order
\* title, author, abstract, conclusion, of which the query contains a
\* keyword; with no such group it starts with the generic prefix that quotes
\* the query.
C18_PrefixOfFirstGroup ==
    Answered =>
        LET groups == GroupsOf(answerContent)
        IN  IF groups = {}
            THEN StartsWith(answerText,
                            GenericPrefixHead \o answerContent \o GenericPrefixTail)
            ELSE \E p \in PrefixGroups[Min(groups)].prefixes : StartsWith(answerText, p)

\* A query with keywords of the second and a later group was answered with
\* the prefix of the second.
C18_Witness ==
    /\ apc = "done"
    /\ answerChunks # <<>>
    /\ GroupsOf(answerContent) = {2, 3}
    /\ StartsWith(answerText, AuthorPrefix)

\* The first of the first three chunks of the document whose content has
\* more than 10 and fewer than 200 characters and none of the markers;
\* 0 when there is none.
FirstTitleChunk ==
    LET found == {i \in 1..Min({TitleScan, Len(documentChunks)}) :
                      /\ Len(documentChunks[i].content) > MinTitleLength
                      /\ Len(documentChunks[i].content) < MaxTitleLength
                      /\ ~IncludesAny(ToLowerCase(documentChunks[i].content),
                                      BoilerplateMarkers)}
    IN  IF found = {} THEN 0 ELSE Min(found)

\* C19: for a query with a title keyword and a ranking that is not empty, the
\* prefix quotes the content of the first of the first three chunks that
\* has between 10 and 200 characters (both excluded) and no marker, else
\* the content of the top-ranked chunk.
C19_TitleFromFirstChunks ==
    (Answered /\ 1 \in GroupsOf(answerContent)) =>
        IF FirstTitleChunk # 0
        THEN StartsWith(answerText,
                        TitlePrefix \o documentChunks[FirstTitleChunk].content
                            \o QuoteEnd)
        ELSE StartsWith(answerText,
                        PossibleTitlePrefix \o answerChunks[1].content \o QuoteEnd)

\* A title was taken from the third chunk: the first has a marker, the
\* second exactly 200 characters and no marker.
C19_Witness ==
    /\ apc = "done"
    /\ answerChunks # <<>>
    /\ 1 \in GroupsOf(answerContent)
    /\ FirstTitleChunk = 3
    /\ Len(documentChunks[2].content) = MaxTitleLength
    /\ ~IncludesAny(ToLowerCase(documentChunks[2].content), BoilerplateMarkers)
    /\ StartsWith(answerText, TitlePrefix \o documentChunks[3].content \o QuoteEnd)

\* The ranked chunks that score more than 0.3, by their places in the ranking.
HighPlaces == {k \in 1..Len(answerChunks) : FLess(<<3, 10>>, answerChunks[k].score)}

\* The body the claim describes.
NumberedBody ==
    LET first == Min(HighPlaces)
        second == Min(HighPlaces \ {first})
    IN  <<"1", ".", " ">> \o answerChunks[first].content \o <<"\n", "\n">>
            \o <<"2", ".", " ">> \o answerChunks[second].content

\* C20: after the prefix, the answer has the two highest-ranked chunks that
\* score above 0.3, numbered 1 and 2, when there are at least two of them,
\* else the content of the top-ranked chunk alone; the statistics follow.
C20_BodyOfHighScoreChunks ==
    Answered =>
        LET prefix == ResponsePrefix(answerContent, answerChunks, documentChunks)
            rest == SubSeq(answerText, Len(prefix) + 1, Len(answerText))
        IN  /\ StartsWith(answerText, prefix)
            /\ IF Cardinality(HighPlaces) >= 2
               THEN StartsWith(rest, NumberedBody \o StatsHead)
               ELSE StartsWith(rest, answerChunks[1].content \o StatsHead)

\* A body of two chunks that score the same: the first and the third chunk
\* of the document, since the second scores less.
C20_Witness ==
    /\ apc = "done"
    /\ Cardinality(HighPlaces) > 2
    /\ HighPlaces = 1..Cardinality(HighPlaces)
    /\ FEqual(answerChunks[1].score, answerChunks[2].score)
    /\ answerChunks[1].content = documentChunks[1].content
    /\ answerChunks[2].content = documentChunks[3].content
    /\ Includes(answerText, NumberedBody \o StatsHead)

-----------------------------------------------------------------------------
(* The page when every file picked is one extractTextFromFile cannot read  *)

\* Files whose extraction ends in the catch block: a PDF pdf.js rejects, a
\* DOCX mammoth rejects whose name has no full stop, and a text file, which
\* the file input passes on whatever its accept attribute says.
UnreadableFiles ==
    {FileScan,
     [name |-> <<"n", "o", "t", "e", "s", "!">>, type |-> DocxType,
      extracted |-> <<>>, throws |-> TRUE],
     [name |-> <<"a", ".", "t", "x", "t">>, type |-> "text/plain",
      extracted |-> FileParis.extracted, throws |-> FALSE]}

NextUnreadable ==
    \/ \E file \in UnreadableFiles : FileSelect(file)
    \/ IntervalCounts
    \/ IntervalEnds
    \/ \E file \in UnreadableFiles : ExtractionDone(file)
    \/ \E input \in Inputs : handleSend(input)
    \/ TimerFires

SpecUnreadable == Init /\ [][NextUnreadable]_vars

\* C21: a file whose extraction throws, or whose type is neither PDF nor
\* DOCX, gives the placeholder text around its name; when handleFileUpload
\* completes, the text is that placeholder and the chunk set, built from it,
\* is not empty; a query is ignored only while no upload has completed or
\* one is running; and the timer of an accepted query appends an answer.
C21_UnreadableFileAnswered ==
    /\ lastCall = "extracted" =>
          /\ \E file \in UnreadableFiles :
                documentText = PlaceholderHead \o file.name \o PlaceholderTail
          /\ documentChunks = createRAGChunks(documentText, DefaultChunkSize)
          /\ Len(documentChunks) > 0
    /\ lastCall = "ignored" =>
          documentText = <<>> \/ extractions # EmptyBag
    /\ lastCall = "sent" =>
          /\ timers # <<>>
          /\ messages[Len(messages)].role = "user"
    /\ lastCall = "timer" =>
          /\ messages # <<>>
          /\ messages[Len(messages)].role = "assistant"
          /\ messages[Len(messages)].content # <<>>

\* A text file has been uploaded, a query sent after its extraction has been
\* answered from the chunks of the placeholder.
C21_Witness ==
    /\ lastCall = "timer"
    /\ uploadedFile # <<>>
    /\ uploadedFile[1].type \notin {PdfType, DocxType}
    /\ documentText = PlaceholderHead \o uploadedFile[1].name \o PlaceholderTail
    /\ Len(documentChunks) > 0
    /\ Len(messages) = 2
    /\ messages[1].role = "user"
    /\ messages[2].role = "assistant"
    /\ ragChunks # <<>>

-----------------------------------------------------------------------------
(* Queries in flight on the page                                           *)

\* C22: at most one answer timer is pending, and isProcessing is true
\* exactly while one is, whatever uploads happen meanwhile.
C22_OneQueryInFlight ==
    /\ Len(timers) <= 1
    /\ isProcessing <=> Len(timers) = 1

\* A query is pending while the upload that followed it is still extracting,
\* and the handleSend that came last submitted nothing.
C22_Witness ==
    /\ isProcessing
    /\ Len(timers) = 1
    /\ staleTimers = 1
    /\ extractions # EmptyBag
    /\ uploadedFile # timers[1].uploadedFile

\* C23: the step of the answer timer ranks the chunk set the page had when the
\* query was submitted, scores each chunk with the size of that set, and
\* appends the answer generateResponse gives for that set, whatever the
\* chunk set of the page is by then.
C23_AnswerFromSubmittedChunks ==
    [][(timers # <<>> /\ timers' = Tail(timers)) =>
         LET t == Head(timers)
             submitted == t.documentChunks
         IN  /\ ragChunks' = findRelevantChunks(t.content, submitted)
             /\ \A i \in 1..Len(ragChunks') :
                   \E j \in 1..Len(submitted) :
                      /\ ragChunks'[i].content = submitted[j].content
                      /\ ragChunks'[i].score =
                            calculateSemanticSimilarity(t.content, submitted[j],
                                                        Len(submitted))
             /\ messages'[Len(messages')].content =
                   generateResponse(t.content, ragChunks', submitted,
                                    FileName(t.uploadedFile))]_vars

\* An answer has been shown with its ranking while the page has no chunk:
\* an upload emptied the chunk set after the query was submitted.
C23_Witness ==
    /\ lastCall = "timer"
    /\ ragChunks # <<>>
    /\ documentChunks = <<>>
    /\ extractions # EmptyBag

\* C26: the history alternates, starting with a user message.
C26_HistoryAlternates ==
    \A i \in 1..Len(messages) :
       messages[i].role = IF i % 2 = 1 THEN "user" ELSE "assistant"

\* C25: once a query is accepted, its timer fires: the step removes the timer
\* and appends exactly one message, the assistant's, and leaves isProcessing
\* false; no other step appends an assistant message; uploads in between do
\* not change this.
C25_AcceptedQueryAnswered ==
    /\ [](timers # <<>> =>
            <>(/\ lastCall = "timer"
               /\ ~isProcessing
               /\ timers = <<>>
               /\ messages # <<>>
               /\ messages[Len(messages)].role = "assistant"))
    /\ [][/\ timers' # timers /\ timers # <<>> =>
             /\ timers' = Tail(timers)
             /\ Len(messages') = Len(messages) + 1
             /\ SubSeq(messages', 1, Len(messages)) = messages
             /\ messages'[Len(messages')].role = "assistant"
             /\ ~isProcessing'
          /\ (/\ messages' # messages
              /\ messages' # <<>>
              /\ messages'[Len(messages')].role = "assistant") =>
             timers' = Tail(timers)]_vars

\* The answer of a query arrived after an upload had cleared the history: it
\* is the only message, and no query is in flight.
C25_Witness ==
    /\ lastCall = "timer"
    /\ ~isProcessing
    /\ timers = <<>>
    /\ Len(messages) = 1
    /\ messages[1].role = "assistant"
    /\ extractions = EmptyBag

-----------------------------------------------------------------------------
(* Lexical matches of the ranking (specification SpecAnswer)               *)

\* C27: every chunk of the ranking contains, whatever the case, one of the
\* words of the query.
C27_RankedChunksMatch ==
    apc \in {"ranked", "responded", "done"} =>
        \A i \in 1..Len(answerChunks) :
           \E k \in 1..Len(QueryWords(answerContent)) :
              Includes(ToLowerCase(answerChunks[i].content),
                       QueryWords(answerContent)[k])

-----------------------------------------------------------------------------
(* The page that searches the text itself: src/pages/Index.tsx             *)

\* The literals of findRelevantChunks and generateResponse of this page.
TextLiterals ==
    [
     noResultsTail |->
        <<"\"", ".", " ", "U+041F", "U+043E", "U+043F", "U+0440", "U+043E",
          "U+0431", "U+0443", "U+0439", "U+0442", "U+0435", " ", "U+043F",
          "U+0435", "U+0440", "U+0435", "U+0444", "U+043E", "U+0440",
          "U+043C", "U+0443", "U+043B", "U+0438", "U+0440", "U+043E",
          "U+0432", "U+0430", "U+0442", "U+044C", " ", "U+0432", "U+043E",
          "U+043F", "U+0440", "U+043E", "U+0441", " ", "U+0438", "U+043B",
          "U+0438", " ", "U+0438", "U+0441", "U+043F", "U+043E", "U+043B",
          "U+044C", "U+0437", "U+043E", "U+0432", "U+0430", "U+0442",
          "U+044C", " ", "U+0434", "U+0440", "U+0443", "U+0433", "U+0438",
          "U+0435", " ", "U+043A", "U+043B", "U+044E", "U+0447", "U+0435",
          "U+0432", "U+044B", "U+0435", " ", "U+0441", "U+043B", "U+043E",
          "U+0432", "U+0430", ".">>,
     titlePrefix |->
        <<"U+041D", "U+0430", "U+0437", "U+0432", "U+0430", "U+043D",
          "U+0438", "U+0435", " ", "U+0434", "U+043E", "U+043A", "U+0443",
          "U+043C", "U+0435", "U+043D", "U+0442", "U+0430", ":", " ", "\"">>,
     authorPrefix |->
        <<"U+0418", "U+043D", "U+0444", "U+043E", "U+0440", "U+043C",
          "U+0430", "U+0446", "U+0438", "U+044F", " ", "U+043E", "U+0431",
          " ", "U+0430", "U+0432", "U+0442", "U+043E", "U+0440", "U+0435",
          " ", "U+043D", "U+0430", "U+0439", "U+0434", "U+0435", "U+043D",
          "U+0430", " ", "U+0432", " ", "U+0434", "U+043E", "U+043A",
          "U+0443", "U+043C", "U+0435", "U+043D", "U+0442", "U+0435", ":",
          "\n", "\n">>,
     abstractPrefix |->
        <<"U+0410", "U+043D", "U+043D", "U+043E", "U+0442", "U+0430",
          "U+0446", "U+0438", "U+044F", " ", "U+0434", "U+043E", "U+043A",
          "U+0443", "U+043C", "U+0435", "U+043D", "U+0442", "U+0430", ":",
          "\n", "\n">>,
     conclusionPrefix |->
        <<"U+0412", "U+044B", "U+0432", "U+043E", "U+0434", "U+044B", " ",
          "U+0438", "U+0437", " ", "U+0434", "U+043E", "U+043A", "U+0443",
          "U+043C", "U+0435", "U+043D", "U+0442", "U+0430", ":", "\n", "\n">>,
     foundHead |->
        <<"\n", "\n", "U+0414", "U+043E", "U+043F", "U+043E", "U+043B",
          "U+043D", "U+0438", "U+0442", "U+0435", "U+043B", "U+044C",
          "U+043D", "U+043E", " ", "U+043D", "U+0430", "U+0439", "U+0434",
          "U+0435", "U+043D", "U+043E", " ">>,
     foundFrom |->
        <<" ", "U+0441", "U+0432", "U+044F", "U+0437", "U+0430", "U+043D",
          "U+043D", "U+044B", "U+0445", " ", "U+0444", "U+0440", "U+0430",
          "U+0433", "U+043C", "U+0435", "U+043D", "U+0442", "U+043E",
          "U+0432", " ", "U+0441", " ", "U+0440", "U+0435", "U+043B",
          "U+0435", "U+0432", "U+0430", "U+043D", "U+0442", "U+043D",
          "U+043E", "U+0441", "U+0442", "U+044C", "U+044E", " ", "U+043E",
          "U+0442", " ">>,
     foundTo |->
        <<"%", " ", "U+0434", "U+043E", " ">>,
     foundTail |->
        <<"%", ".">>,
     paragraph |->
        <<"U+0410", "U+0431", "U+0437", "U+0430", "U+0446", " ">>,
     sentence |->
        <<"U+041F", "U+0440", "U+0435", "U+0434", "U+043B", "U+043E",
          "U+0436", "U+0435", "U+043D", "U+0438", "U+0435", " ">>,
     titleKeywords |->
        {
         <<"U+043D", "U+0430", "U+0437", "U+0432", "U+0430", "U+043D",
             "U+0438", "U+0435">>,
         <<"U+0437", "U+0430", "U+0433", "U+043E", "U+043B", "U+043E",
             "U+0432", "U+043E", "U+043A">>,
         <<"U+0441", "U+0442", "U+0430", "U+0442", "U+044C", "U+044F">>},
     notTitle |->
        {
         <<"A", "b", "s", "t", "r", "a", "c", "t">>,
         <<"K", "e", "y", "w", "o", "r", "d", "s">>}]

RECURSIVE SplitParagraphs(_, _)
\* text.split(/\n\s*\n/), from a position on: a match starts at the first
\* newline that only white space separates from another newline and ends
\* at the last such newline.
SplitParagraphs(s, from) ==
    LET ends(i) == {j \in (i + 1)..Len(s) :
                       /\ s[j] = "\n"
                       /\ \A k \in (i + 1)..(j - 1) : s[k] \in WhiteSpace}
        starts == {i \in from..Len(s) : s[i] = "\n" /\ ends(i) # {}}
    IN  IF starts = {} THEN <<SubSeq(s, from, Len(s))>>
        ELSE LET i == Min(starts)
                 j == CHOOSE e \in ends(i) : \A o \in ends(i) : o <= e
             IN  <<SubSeq(s, from, i - 1)>> \o SplitParagraphs(s, j + 1)

\* allChunks: the paragraphs of more than 20 characters, then the sentences
\* of more than 15, each with its index among its own kind.
AllChunks(docText) ==
    LET longParagraph(x) == Len(Trim(x)) > 20
        longSentence(x) == Len(Trim(x)) > 15
        paragraphs == SelectSeq(SplitParagraphs(docText, 1), longParagraph)
        sents == SelectSeq(SplitRuns(docText, Terminators), longSentence)
    IN  [i \in 1..Len(paragraphs) |->
            [text |-> paragraphs[i], type |-> "paragraph", index |-> i - 1]]
        \o [i \in 1..Len(sents) |->
               [text |-> sents[i], type |-> "sentence", index |-> i - 1]]

\* (chunkLower.match(new RegExp(`\\b${word}`, 'gi')) || []).length
PrefixMatches(s, word) ==
    IF word = <<>>
    THEN Cardinality({p \in 0..Len(s) : WordBoundary(s, p)})
    ELSE CountFrom({i \in 1..(Len(s) - Len(word) + 1) :
                       OccursAt(s, word, i) /\ WordBoundary(s, i - 1)},
                   Len(word), 1)

\* The score of a chunk, before Math.min: 0.3 for every match of a query
\* word at a word boundary, 0.1 for every query word of more than 3
\* characters that occurs, 0.05 for a paragraph, and the position bonus.
ChunkScore(queryWords, c, total) ==
    LET chunkLower == ToLowerCase(c.text)
        RECURSIVE Sum(_)
        Sum(i) ==
            IF i = 0 THEN <<0, 1>>
            ELSE FAdd(Sum(i - 1),
                      Frac(3 * PrefixMatches(chunkLower, queryWords[i])
                           + (IF /\ Len(queryWords[i]) > 3
                                 /\ Includes(chunkLower, queryWords[i])
                              THEN 1 ELSE 0),
                           10))
    IN  FAdd(FAdd(Sum(Len(queryWords)),
                  IF c.type = "paragraph" THEN <<1, 20>> ELSE <<0, 1>>),
             PositionBonus(c.index, total))

\* Index.findRelevantChunks(query, text) of src/pages/Index.tsx
findRelevantChunksInText(q, docText) ==
    IF docText = <<>> THEN <<>>
    ELSE LET allChunks == AllChunks(docText)
             queryWords == QueryWords(q)
             aboveThreshold(c) == FLess(<<1, 20>>, c.score)
             scoredChunks ==
                 [i \in 1..Len(allChunks) |->
                     [content |-> Trim(allChunks[i].text),
                      score |-> FMin(ChunkScore(queryWords, allChunks[i],
                                                Len(allChunks)), <<1, 1>>),
                      source |->
                         (IF allChunks[i].type = "paragraph"
                          THEN TextLiterals.paragraph
                          ELSE TextLiterals.sentence)
                         \o Digits(allChunks[i].index + 1)]]
         IN  Slice(SortByScore(SelectSeq(scoredChunks, aboveThreshold)), TopResults)

\* Index.generateResponse(query, chunks, fullText) of src/pages/Index.tsx,
\* with the uploadedFile?.name it reads.
generateResponseFromText(q, ranked, fullText, fileName) ==
    IF Len(ranked) = 0
    THEN NoResultsHead \o (IF fileName = <<>> THEN DefaultDocumentName ELSE fileName)
             \o NoResultsMiddle \o q \o TextLiterals.noResultsTail
    ELSE LET queryLower == ToLowerCase(q)
             firstLines == Slice(SplitChar(fullText, "\n"), 5)
             titles == {i \in 1..Len(firstLines) :
                           /\ Len(Trim(firstLines[i])) > 5
                           /\ Len(Trim(firstLines[i])) < 200
                           /\ ~IncludesAny(firstLines[i], TextLiterals.notTitle)}
             responsePrefix ==
                 IF IncludesAny(queryLower, TextLiterals.titleKeywords)
                 THEN IF titles = {} THEN <<>>
                      ELSE TextLiterals.titlePrefix
                               \o Trim(firstLines[Min(titles)]) \o QuoteEnd
                 ELSE IF IncludesAny(queryLower, AuthorKeywords)
                 THEN TextLiterals.authorPrefix
                 ELSE IF IncludesAny(queryLower, AbstractKeywords)
                 THEN TextLiterals.abstractPrefix
                 ELSE IF IncludesAny(queryLower, ConclusionKeywords)
                 THEN TextLiterals.conclusionPrefix
                 ELSE <<>>
             highScoreChunks == SelectSeq(ranked, HighScore)
             shown == Slice(highScoreChunks, 2)
             mainResponse ==
                 IF Len(highScoreChunks) > 0
                 THEN Join([i \in 1..Len(shown) |-> shown[i].content],
                           <<"\n", "\n">>)
                 ELSE ranked[1].content
             additionalInfo ==
                 IF Len(ranked) > 1
                 THEN TextLiterals.foundHead \o Digits(Len(ranked) - 1)
                          \o TextLiterals.foundFrom
                          \o ToFixed1(ranked[Len(ranked)].score)
                          \o TextLiterals.foundTo \o ToFixed1(ranked[1].score)
                          \o TextLiterals.foundTail
                 ELSE <<>>
         IN  responsePrefix \o mainResponse \o additionalInfo

\* The files of this page: a heading and two paragraphs, one sentence, and a
\* text too short to give a chunk.
TextFiles ==
    {
     [name |->
        <<"c", "a", "t", "s", ".", "p", "d", "f">>,
      type |-> PdfType,
      extracted |->
        <<"C", "a", "t", "s", " ", "a", "n", "d", " ", "d", "o", "g", "s",
          "\n", "\n", "C", "a", "t", "s", " ", "p", "u", "r", "r", " ", "w",
          "h", "e", "n", " ", "t", "h", "e", "y", " ", "a", "r", "e", " ",
          "h", "a", "p", "p", "y", ".", " ", "\n", " ", "\n", "D", "o", "g",
          "s", " ", "b", "a", "r", "k", " ", "a", "t", " ", "t", "h", "e",
          " ", "p", "o", "s", "t", "m", "a", "n", " ", "e", "v", "e", "r",
          "y", " ", "d", "a", "y", "!">>,
      throws |-> FALSE],
     [name |->
        <<"o", "w", "l", "s", ".", "p", "d", "f">>,
      type |-> PdfType,
      extracted |->
        <<"O", "w", "l", "s", " ", "h", "u", "n", "t", " ", "m", "i", "c",
          "e", " ", "d", "u", "r", "i", "n", "g", " ", "t", "h", "e", " ",
          "n", "i", "g", "h", "t", ".">>,
      throws |-> FALSE],
     [name |->
        <<"h", "i", ".", "p", "d", "f">>,
      type |-> PdfType,
      extracted |->
        <<"H", "i", " ", "t", "h", "e", "r", "e", ".">>,
      throws |-> FALSE]}

\* What the user types: a word of a document, tokens of at most 2
\* characters, a blank.
TextInputs ==
    {
     <<"c", "a", "t", "s">>,
     <<"I", "s", " ", "i", "t", " ", "?">>,
     <<" ">>}

\* Index.handleFileUpload of src/pages/Index.tsx up to its await, called by
\* FileUpload with the file picked: the text of the page stays.
handleFileUploadOfText(file) ==
    /\ BagCardinality(extractions) < MaxExtractions
    /\ uploadedFile' = <<file>>
    /\ messages' = <<>>
    /\ ragChunks' = <<>>
    /\ extractions' = extractions (+) SetToBag({file})
    /\ lastCall' = "handleFileUpload"
    /\ UNCHANGED <<documentText, documentChunks, isProcessing, timers,
                   isUploading, uploadProgress, interval, staleTimers>>
    /\ UNCHANGED <<chunkerVars, scorerVars, answerVars, botVars>>

\* Index.handleFileUpload after its await: setDocumentText(text).
TextExtractionDone(file) ==
    /\ BagIn(file, extractions)
    /\ documentText' = extractTextFromFile(file)
    /\ extractions' = extractions (-) SetToBag({file})
    /\ lastCall' = "extracted"
    /\ UNCHANGED <<uploadedFile, documentChunks, messages, ragChunks,
                   isProcessing, timers, isUploading, uploadProgress,
                   interval, staleTimers>>
    /\ UNCHANGED <<chunkerVars, scorerVars, answerVars, botVars>>

\* ChatInterface.handleSend with inputValue = input, and the
\* Index.handleSendMessage of src/pages/Index.tsx it calls.
handleSendOnText(input) ==
    /\ Len(messages) < MaxMessages
    /\ IF Trim(input) # <<>> /\ ~isProcessing
       THEN IF documentText = <<>>
            THEN /\ lastCall' = "ignored"
                 /\ UNCHANGED <<messages, isProcessing, timers>>
            ELSE /\ messages' = Append(messages, [role |-> "user",
                                                  content |-> Trim(input)])
                 /\ isProcessing' = TRUE
                 /\ timers' = Append(timers, [content |-> Trim(input),
                                              documentText |-> documentText,
                                              uploadedFile |-> uploadedFile])
                 /\ lastCall' = "sent"
       ELSE UNCHANGED <<messages, isProcessing, timers, lastCall>>
    /\ UNCHANGED <<uploadedFile, documentText, documentChunks, ragChunks,
                   extractions, isUploading, uploadProgress, interval, staleTimers>>
    /\ UNCHANGED <<chunkerVars, scorerVars, answerVars, botVars>>

\* The callback this handleSendMessage gave to setTimeout, with the
\* documentText and the uploadedFile of the render that made it.
TextTimerFires ==
    /\ timers # <<>>
    /\ LET t == Head(timers)
           relevantChunks == findRelevantChunksInText(t.content, t.documentText)
           responseText == generateResponseFromText(t.content, relevantChunks,
                               t.documentText, FileName(t.uploadedFile))
       IN  /\ messages' = Append(messages, [role |-> "assistant", content |-> responseText])
           /\ ragChunks' = relevantChunks
    /\ isProcessing' = FALSE
    /\ timers' = Tail(timers)
    /\ lastCall' = "timer"
    /\ UNCHANGED <<uploadedFile, documentText, documentChunks, extractions,
                   isUploading, uploadProgress, interval, staleTimers>>
    /\ UNCHANGED <<chunkerVars, scorerVars, answerVars, botVars>>

NextText ==
    \/ \E file \in TextFiles : handleFileUploadOfText(file)
    \/ \E file \in TextFiles : TextExtractionDone(file)
    \/ \E input \in TextInputs : handleSendOnText(input)
    \/ TextTimerFires

SpecText == Init /\ [][NextText]_vars

\* C28: a query is accepted with the text of the file the page shows as
\* uploaded; its answer and its ranking are computed from that text.
C28_AnswerFromDisplayedFile ==
    \A i \in 1..Len(timers) :
       /\ timers[i].uploadedFile # <<>>
       /\ timers[i].documentText = extractTextFromFile(timers[i].uploadedFile[1])

\* C29: the answer to a query whose tokens have at most 2 characters is the
\* no-results message, and the ranking shown with it is empty.
C29_ShortTokensNoMatch ==
    \A i \in 2..Len(messages) :
       (/\ messages[i].role = "assistant"
        /\ messages[i - 1].role = "user"
        /\ NoLongToken(messages[i - 1].content)) =>
          /\ StartsWith(messages[i].content, NoResultsHead)
          /\ (i = Len(messages) /\ lastCall = "timer") => ragChunks = <<>>

-----------------------------------------------------------------------------
(* The chat with a remote backend: src/components/ChatBot.tsx              *)

\* The literals of ChatBot, and what its environment gives: the files picked,
\* what the upload request and the chat request come to, and what is typed.
\* A request rejects (with the message of its error) or responds; the body of
\* a response is <<>> when it is not JSON (response.json() rejects with the
\* message) and <<value>> when it is; store tells whether
\* localStorage.setItem throws (the quota is exceeded).
ChatBotData ==
    [
     uploadedHead |->
        <<"U+0424", "U+0430", "U+0439", "U+043B", " ", "\"">>,
     uploadedSize |->
        <<"\"", " ", "U+0443", "U+0441", "U+043F", "U+0435", "U+0448",
          "U+043D", "U+043E", " ", "U+043E", "U+0431", "U+0440", "U+0430",
          "U+0431", "U+043E", "U+0442", "U+0430", "U+043D", "!", " ",
          "U+0420", "U+0430", "U+0437", "U+043C", "U+0435", "U+0440", ":", " ">>,
     uploadedCount |->
        <<"K", "B", ",", " ", "U+0438", "U+0437", "U+0432", "U+043B",
          "U+0435", "U+0447", "U+0435", "U+043D", "U+043E", " ", "U+0441",
          "U+0438", "U+043C", "U+0432", "U+043E", "U+043B", "U+043E",
          "U+0432", ":", " ">>,
     uploadedTail |->
        <<".", " ", "U+0422", "U+0435", "U+043F", "U+0435", "U+0440",
          "U+044C", " ", "U+0432", "U+044B", " ", "U+043C", "U+043E",
          "U+0436", "U+0435", "U+0442", "U+0435", " ", "U+0437", "U+0430",
          "U+0434", "U+0430", "U+0432", "U+0430", "U+0442", "U+044C", " ",
          "U+0432", "U+043E", "U+043F", "U+0440", "U+043E", "U+0441",
          "U+044B", " ", "U+043F", "U+043E", " ", "U+0435", "U+0433",
          "U+043E", " ", "U+0441", "U+043E", "U+0434", "U+0435", "U+0440",
          "U+0436", "U+0438", "U+043C", "U+043E", "U+043C", "U+0443", ".">>,
     errorPrefix |->
        <<"U+0418", "U+0437", "U+0432", "U+0438", "U+043D", "U+0438",
          "U+0442", "U+0435", ",", " ", "U+043F", "U+0440", "U+043E",
          "U+0438", "U+0437", "U+043E", "U+0448", "U+043B", "U+0430", " ",
          "U+043E", "U+0448", "U+0438", "U+0431", "U+043A", "U+0430", ":", " ">>,
     missing |->
        <<"U+0421", "U+043E", "U+0434", "U+0435", "U+0440", "U+0436",
          "U+0438", "U+043C", "U+043E", "U+0435", " ", "U+0444", "U+0430",
          "U+0439", "U+043B", "U+0430", " ", "U+043D", "U+0435", " ",
          "U+043D", "U+0430", "U+0439", "U+0434", "U+0435", "U+043D",
          "U+043E", ".", " ", "U+0417", "U+0430", "U+0433", "U+0440",
          "U+0443", "U+0437", "U+0438", "U+0442", "U+0435", " ", "U+0444",
          "U+0430", "U+0439", "U+043B", " ", "U+0437", "U+0430", "U+043D",
          "U+043E", "U+0432", "U+043E", ".">>,
     http |->
        <<"H", "T", "T", "P", " ">>,
     allowedExtensions |->
        {<<".", "t", "x", "t">>, <<".", "p", "d", "f">>, <<".", "d", "o", "c">>, <<".", "d", "o", "c", "x">>},
     files |->
        {
         [name |-> <<"a", ".", "p", "d", "f">>, size |-> 2048],
         [name |-> <<"B", ".", "D", "O", "C", "X">>, size |-> 10 * 1024 * 1024],
         [name |-> <<"b", "i", "g", ".", "t", "x", "t">>, size |-> 10 * 1024 * 1024 + 1],
         [name |-> <<"a", ".", "p", "d", "f", ".", "e", "x", "e">>, size |-> 100]},
     uploads |->
        {[fetch |-> "rejects"],
         [fetch |-> "responds", ok |-> FALSE, status |-> 500,
          body |-> <<[error |-> <<"b", "a", "d">>]>>],
         [fetch |-> "responds", ok |-> FALSE, status |-> 502, body |-> <<>>],
         [fetch |-> "responds", ok |-> TRUE, status |-> 200, body |-> <<>>],
         [fetch |-> "responds", ok |-> TRUE, status |-> 200,
          body |-> <<[error |-> <<>>]>>],
         [fetch |-> "responds", ok |-> TRUE, status |-> 200,
          body |-> <<[text |-> <<" ", "\n">>]>>, store |-> "stores"],
         [fetch |-> "responds", ok |-> TRUE, status |-> 200,
          body |-> <<[text |-> <<"P", "a", "r", "i", "s", " ", "i", "s", " ", "t", "h",
                      "e", " ", "c", "a", "p", "i", "t", "a", "l", " ", "o",
                      "f", " ", "F", "r", "a", "n", "c", "e", ".">>]>>,
          store |-> "stores"],
         [fetch |-> "responds", ok |-> TRUE, status |-> 200,
          body |-> <<[text |-> <<"P", "a", "r", "i", "s", " ", "i", "s", " ", "t", "h",
                      "e", " ", "c", "a", "p", "i", "t", "a", "l", " ", "o",
                      "f", " ", "F", "r", "a", "n", "c", "e", ".">>]>>,
          store |-> "throws"]},
     replies |->
        {[fetch |-> "rejects", message |-> <<"F", "a", "i", "l", "e", "d", " ", "t", "o", " ", "f", "e", "t",
            "c", "h">>],
         [fetch |-> "responds", ok |-> FALSE, status |-> 500,
          body |-> <<[error |-> <<"N", "o", " ", "k", "e", "y">>]>>],
         [fetch |-> "responds", ok |-> FALSE, status |-> 502,
          body |-> <<[error |-> <<>>]>>],
         [fetch |-> "responds", ok |-> FALSE, status |-> 504, body |-> <<>>,
          message |-> <<"U", "n", "e", "x", "p", "e", "c", "t", "e", "d", " ", "t", "o",
            "k", "e", "n", " ", "<">>],
         [fetch |-> "responds", ok |-> TRUE, status |-> 200, body |-> <<>>,
          message |-> <<"U", "n", "e", "x", "p", "e", "c", "t", "e", "d", " ", "e", "n",
            "d">>],
         [fetch |-> "responds", ok |-> TRUE, status |-> 200,
          body |-> <<[response |-> <<"P", "a", "r", "i", "s", ".">>,
                      chunks |-> <<[id |-> "1"]>>]>>],
         [fetch |-> "responds", ok |-> TRUE, status |-> 200,
          body |-> <<[response |-> <<"N", "o", ".">>]>>]},
     inputs |->
        {<<"C", "a", "p", "i", "t", "a", "l", "?", " ">>, <<" ">>}]

\* ChatBot.handleFileUpload to its first await, for the file picked. The
\* button that opens the file dialog is disabled while isProcessingFile.
handleFileUploadOfChatBot(file) ==
    /\ ~isProcessingFile
    /\ Len(messages) < MaxMessages
    /\ IF file.size > 10 * 1024 * 1024
       THEN /\ lastCall' = "fileTooBig"
            /\ UNCHANGED <<isProcessingFile, fileRequest>>
       ELSE IF \A ext \in ChatBotData.allowedExtensions :
                  \/ Len(ext) > Len(file.name)
                  \/ SubSeq(ToLowerCase(file.name),
                            Len(file.name) - Len(ext) + 1, Len(file.name)) # ext
       THEN /\ lastCall' = "badExtension"
            /\ UNCHANGED <<isProcessingFile, fileRequest>>
       ELSE /\ isProcessingFile' = TRUE
            /\ fileRequest' = <<file>>
            /\ lastCall' = "uploading"
    /\ UNCHANGED <<uploadedFile, messages, isLoading, localStorage, chatRequest>>
    /\ UNCHANGED <<documentText, documentChunks, ragChunks, isProcessing,
                   extractions, timers, isUploading, uploadProgress, interval,
                   staleTimers>>
    /\ UNCHANGED <<chunkerVars, scorerVars, answerVars>>

\* Mutant: setUploadedFile and setMessages run before the text is tested.
UploadSettles_ShowsFileFirst(outcome) ==
    /\ fileRequest # <<>>
    /\ LET file == fileRequest[1]
           kind == IF outcome.fetch = "rejects" THEN "networkError"
                   ELSE IF ~outcome.ok THEN "notOk"
                   ELSE IF outcome.body = <<>> THEN "notJson"
                   ELSE IF "text" \notin DOMAIN outcome.body[1] THEN "noText"
                   ELSE IF Trim(outcome.body[1].text) = <<>> THEN "emptyText"
                   ELSE IF outcome.store = "throws" THEN "storeFailed"
                   ELSE "uploaded"
           extractedText == outcome.body[1].text
           tenths == (file.size * 20 + 1024) \div 2048
           botMessage ==
               [type |-> "bot",
                content |->
                   ChatBotData.uploadedHead \o file.name
                       \o ChatBotData.uploadedSize
                       \o Digits(tenths \div 10) \o <<".">> \o Digits(tenths % 10)
                       \o ChatBotData.uploadedCount \o Digits(Len(extractedText))
                       \o ChatBotData.uploadedTail]
       IN  /\ IF kind \in {"emptyText", "storeFailed", "uploaded"}
              THEN /\ uploadedFile' = <<file>>
                   /\ messages' = Append(messages, botMessage)
              ELSE UNCHANGED <<uploadedFile, messages>>
           /\ localStorage' =
                 IF kind = "uploaded"
                 THEN [uploadedFileContent |-> extractedText,
                       uploadedFileName |-> file.name]
                 ELSE localStorage
           /\ lastCall' = kind
    /\ isProcessingFile' = FALSE
    /\ fileRequest' = <<>>
    /\ UNCHANGED <<isLoading, chatRequest>>
    /\ UNCHANGED <<documentText, documentChunks, ragChunks, isProcessing,
                   extractions, timers, isUploading, uploadProgress, interval,
                   staleTimers>>
    /\ UNCHANGED <<chunkerVars, scorerVars, answerVars>>

\* ChatBot.handleFileUpload from its first await on: fileToBase64, the
\* request and response.json() settle as the outcome says; then the catch
\* block (an alert) or the success path, and the finally block.
UploadSettles(outcome) ==
    /\ fileRequest # <<>>
    /\ LET file == fileRequest[1]
           kind == IF outcome.fetch = "rejects" THEN "networkError"
                   ELSE IF ~outcome.ok THEN "notOk"
                   ELSE IF outcome.body = <<>> THEN "notJson"
                   ELSE IF "text" \notin DOMAIN outcome.body[1] THEN "noText"
                   ELSE IF Trim(outcome.body[1].text) = <<>> THEN "emptyText"
                   ELSE IF outcome.store = "throws" THEN "storeFailed"
                   ELSE "uploaded"
           extractedText == outcome.body[1].text
           tenths == (file.size * 20 + 1024) \div 2048
           botMessage ==
               [type |-> "bot",
                content |->
                   ChatBotData.uploadedHead \o file.name
                       \o ChatBotData.uploadedSize
                       \o Digits(tenths \div 10) \o <<".">> \o Digits(tenths % 10)
                       \o ChatBotData.uploadedCount \o Digits(Len(extractedText))
                       \o ChatBotData.uploadedTail]
       IN  /\ IF kind \in {"storeFailed", "uploaded"}
              THEN /\ uploadedFile' = <<file>>
                   /\ messages' = Append(messages, botMessage)
              ELSE UNCHANGED <<uploadedFile, messages>>
           /\ localStorage' =
                 IF kind = "uploaded"
                 THEN [uploadedFileContent |-> extractedText,
                       uploadedFileName |-> file.name]
                 ELSE localStorage
           /\ lastCall' = kind
    /\ isProcessingFile' = FALSE
    /\ fileRequest' = <<>>
    /\ UNCHANGED <<isLoading, chatRequest>>
    /\ UNCHANGED <<documentText, documentChunks, ragChunks, isProcessing,
                   extractions, timers, isUploading, uploadProgress, interval,
                   staleTimers>>
    /\ UNCHANGED <<chunkerVars, scorerVars, answerVars>>

\* ChatBot.handleSendMessage with inputValue = input, to its await; when the
\* stored text is missing it runs to its end at once.
handleSendMessageOfChatBot(input) ==
    /\ Len(messages) < MaxMessages
    /\ IF Trim(input) = <<>> \/ isLoading
       THEN UNCHANGED <<messages, isLoading, chatRequest, lastCall>>
       ELSE IF uploadedFile = <<>>
       THEN /\ lastCall' = "noDocument"
            /\ UNCHANGED <<messages, isLoading, chatRequest>>
       ELSE LET userMessage == [type |-> "user", content |-> input]
                fileContent == localStorage.uploadedFileContent
            IN  IF fileContent = <<>>
                THEN /\ messages' =
                           messages \o <<userMessage,
                               [type |-> "bot",
                                content |-> ChatBotData.errorPrefix
                                                \o ChatBotData.missing]>>
                     /\ lastCall' = "missing"
                     /\ UNCHANGED <<isLoading, chatRequest>>
                ELSE /\ messages' = Append(messages, userMessage)
                     /\ isLoading' = TRUE
                     /\ chatRequest' = <<[message |-> input,
                                          document |-> fileContent]>>
                     /\ lastCall' = "sent"
    /\ UNCHANGED <<uploadedFile, isProcessingFile, localStorage, fileRequest>>
    /\ UNCHANGED <<documentText, documentChunks, ragChunks, isProcessing,
                   extractions, timers, isUploading, uploadProgress, interval,
                   staleTimers>>
    /\ UNCHANGED <<chunkerVars, scorerVars, answerVars>>

\* Mutant: a response that is not OK ends the request without a message.
ReplySettles_DropsNotOk(reply) ==
    /\ chatRequest # <<>>
    /\ LET error == IF reply.fetch = "rejects" \/ reply.body = <<>>
                    THEN <<reply.message>>
                    ELSE IF ~reply.ok
                    THEN <<IF reply.body[1].error # <<>>
                           THEN reply.body[1].error
                           ELSE ChatBotData.http \o Digits(reply.status)>>
                    ELSE <<>>
           result == reply.body[1]
           botMessage ==
               IF error # <<>>
               THEN [type |-> "bot",
                     content |-> ChatBotData.errorPrefix \o error[1]]
               ELSE [type |-> "bot", content |-> result.response,
                     chunks |-> IF "chunks" \in DOMAIN result
                                THEN result.chunks ELSE <<>>]
       IN  /\ messages' = IF ~error # <<>> \/ reply.fetch = "rejects"
                         THEN Append(messages, botMessage) ELSE messages
           /\ lastCall' = IF error # <<>> THEN "failed" ELSE "answered"
    /\ isLoading' = FALSE
    /\ chatRequest' = <<>>
    /\ UNCHANGED <<uploadedFile, isProcessingFile, localStorage, fileRequest>>
    /\ UNCHANGED <<documentText, documentChunks, ragChunks, isProcessing,
                   extractions, timers, isUploading, uploadProgress, interval,
                   staleTimers>>
    /\ UNCHANGED <<chunkerVars, scorerVars, answerVars>>

\* ChatBot.handleSendMessage from its await on: the request and
\* response.json() settle as the reply says; then the bot message of the
\* try block or of the catch block, and the finally block.
ReplySettles(reply) ==
    /\ chatRequest # <<>>
    /\ LET error == IF reply.fetch = "rejects" \/ reply.body = <<>>
                    THEN <<reply.message>>
                    ELSE IF ~reply.ok
                    THEN <<IF reply.body[1].error # <<>>
                           THEN reply.body[1].error
                           ELSE ChatBotData.http \o Digits(reply.status)>>
                    ELSE <<>>
           result == reply.body[1]
           botMessage ==
               IF error # <<>>
               THEN [type |-> "bot",
                     content |-> ChatBotData.errorPrefix \o error[1]]
               ELSE [type |-> "bot", content |-> result.response,
                     chunks |-> IF "chunks" \in DOMAIN result
                                THEN result.chunks ELSE <<>>]
       IN  /\ messages' = Append(messages, botMessage)
           /\ lastCall' = IF error # <<>> THEN "failed" ELSE "answered"
    /\ isLoading' = FALSE
    /\ chatRequest' = <<>>
    /\ UNCHANGED <<uploadedFile, isProcessingFile, localStorage, fileRequest>>
    /\ UNCHANGED <<documentText, documentChunks, ragChunks, isProcessing,
                   extractions, timers, isUploading, uploadProgress, interval,
                   staleTimers>>
    /\ UNCHANGED <<chunkerVars, scorerVars, answerVars>>

NextChatBot ==
    \/ \E file \in ChatBotData.files : handleFileUploadOfChatBot(file)
    \/ \E outcome \in ChatBotData.uploads : UploadSettles(outcome)
    \/ \E input \in ChatBotData.inputs : handleSendMessageOfChatBot(input)
    \/ \E reply \in ChatBotData.replies : ReplySettles(reply)

SpecChatBot == Init /\ [][NextChatBot]_vars

\* C24: the step that settles the request of an accepted send appends
\* exactly one message, a bot message: the response of the backend, or the
\* error prefix followed by the message of the failure; a send that finds no
\* stored text appends its error message at once; isLoading is false after
\* either, and true exactly while a request is awaited.
C24_SendEndsWithOneBotMessage ==
    [][/\ (chatRequest # <<>> /\ chatRequest' = <<>>) =>
             LET last == messages'[Len(messages')]
             IN  /\ Len(messages') = Len(messages) + 1
                 /\ SubSeq(messages', 1, Len(messages)) = messages
                 /\ last.type = "bot"
                 /\ \/ /\ lastCall' = "answered"
                       /\ \E reply \in ChatBotData.replies :
                             /\ reply.fetch = "responds" /\ reply.ok
                             /\ reply.body # <<>>
                             /\ last.content = reply.body[1].response
                    \/ /\ lastCall' = "failed"
                       /\ StartsWith(last.content, ChatBotData.errorPrefix)
                       /\ Len(last.content) > Len(ChatBotData.errorPrefix)
                 /\ ~isLoading'
       /\ lastCall' = "missing" =>
             /\ Len(messages') = Len(messages) + 2
             /\ SubSeq(messages', 1, Len(messages)) = messages
             /\ messages'[Len(messages') - 1].type = "user"
             /\ messages'[Len(messages')] =
                   [type |-> "bot",
                    content |-> ChatBotData.errorPrefix \o ChatBotData.missing]
             /\ ~isLoading'
       /\ lastCall' = "sent" =>
             /\ messages'[Len(messages')].type = "user"
             /\ chatRequest' # <<>>
       /\ isLoading' <=> chatRequest' # <<>>]_vars

\* A backend that answered 502 without a reason has been reported in the
\* chat, after the upload message and the question.
C24_Witness ==
    /\ lastCall = "failed"
    /\ ~isLoading
    /\ Len(messages) = 3
    /\ messages[2].type = "user"
    /\ messages[3].content =
          ChatBotData.errorPrefix \o ChatBotData.http \o <<"5", "0", "2">>

\* C30: a step of handleFileUpload that rejects the file (over 10 MB,
\* extension not allowed) or fails (the request rejects, the response is
\* not OK, the text is empty) changes none of uploadedFile, messages and
\* the stored text, and leaves isProcessingFile false.
C30_FailedUploadKeepsState ==
    [][lastCall' \in {"fileTooBig", "badExtension", "networkError", "notOk",
                      "emptyText"} =>
          /\ uploadedFile' = uploadedFile
          /\ messages' = messages
          /\ localStorage' = localStorage
          /\ ~isProcessingFile']_vars

\* An upload that gave an empty text has failed after one that succeeded:
\* the file, the message and the stored text of the first are there.
C30_Witness ==
    /\ lastCall = "emptyText"
    /\ ~isProcessingFile
    /\ uploadedFile # <<>>
    /\ localStorage.uploadedFileName = uploadedFile[1].name
    /\ localStorage.uploadedFileContent # <<>>
    /\ Len(messages) = 1
====
